---- MODULE Spec2Model ----
(***************************************************************************)
(* Model of the duel backend: the time utilities of utils.py, the result   *)
(* calculation and the duel request handlers of routes/duels.py.           *)
(*                                                                         *)
(* Instants are whole seconds since 00:00 UTC of day 0; a calendar date is *)
(* its day number.  An Optional value is <<>> (None) or <<v>>.             *)
(*                                                                         *)
(* duel is the row of the duel the handlers are invoked on; duels is the   *)
(* duels table as request_duel sees it (date, participants and status of   *)
(* each row, in insertion order).                                          *)
(***************************************************************************)
EXTENDS Integers, Sequences, FiniteSets, TLC

VARIABLES duel, duels, blackout, clock, pc, loc, call

vars == <<duel, duels, blackout, clock, pc, loc, call>>

\* ------------------------------------------------------------------ values

None == <<>>

Some(v) == <<v>>

Minute == 60

Hour == 60 * Minute

Day == 24 * Hour

\* utils.py: module constants
DUEL_START_HOUR_LOCAL == 12

DUEL_END_HOUR_LOCAL == 0

CHECKIN_TOLERANCE_MINUTES == 2

\* timedelta(hours=5) in calculate_blackout_window_utc
BLACKOUT_HOURS == 5

\* the extra minutes added to the tolerance in the result calculation
DQ_EXTRA_MINUTES == 3

\* ------------------------------------------------------------------ bounds

\* dates drawn for the pure functions: day numbers 0..MaxDate
MaxDate == 1

\* the server clock takes the values ClockAt(0..MaxTick)
MaxTick == 3

\* request handlers that may be in flight at once
NumProcs == 2

Users == {1, 2}

Opponent(u) == 3 - u

Procs == 1..NumProcs

\* every value the users table can hold for blackout_start_hour
BlackoutSettings == {None} \cup {Some(h) : h \in 12..19}

\* ------------------------------------------------------------------ utils.py

\* datetime.combine(date, time(hour=h), tzinfo=utc)
CombineUtc(date, h) == date * Day + h * Hour

\* the blackout window with start hour 20 accepted
BlackoutWindowThrough20(h, date) ==
    IF h = None \/ ~(12 <= h[1] /\ h[1] <= 20)
    THEN None
    ELSE LET start_dt_utc == CombineUtc(date, h[1])
             end_dt_utc == start_dt_utc + BLACKOUT_HOURS * Hour
         IN  Some(<<start_dt_utc, end_dt_utc>>)

\* calculate_blackout_window_utc: None, or Some(<<start, end>>)
CalculateBlackoutWindowUtc(h, date) ==
    IF h = None \/ ~(12 <= h[1] /\ h[1] <= 19)
    THEN None
    ELSE LET start_dt_utc == CombineUtc(date, h[1])
             end_dt_utc == start_dt_utc + BLACKOUT_HOURS * Hour
         IN  Some(<<start_dt_utc, end_dt_utc>>)

DuelWindowStartUtc(date) == CombineUtc(date, DUEL_START_HOUR_LOCAL)

DuelWindowEndUtc(date) == CombineUtc(date + 1, DUEL_END_HOUR_LOCAL)

Max2(a, b) == IF a >= b THEN a ELSE b

Min2(a, b) == IF a <= b THEN a ELSE b

\* the first candidate interval appended even when it is empty
IntervalBeforeAllowingEmpty(ws, we, bw) ==
    LET effective_blackout_start == Max2(ws, bw[1])
        end_offset == effective_blackout_start - ws
    IN  IF end_offset >= 0
        THEN << <<0, end_offset>> >>
        ELSE << >>

\* the first candidate interval: from the window start to the blackout start
IntervalBefore(ws, we, bw) ==
    LET effective_blackout_start == Max2(ws, bw[1])
        end_offset == effective_blackout_start - ws
    IN  IF effective_blackout_start > ws /\ end_offset > 0
        THEN << <<0, end_offset>> >>
        ELSE << >>

\* the second candidate interval: from the blackout end to the window end
IntervalAfter(ws, we, bw) ==
    LET effective_blackout_end == Min2(we, bw[2])
        start_offset == effective_blackout_end - ws
        end_offset == we - ws
    IN  IF effective_blackout_end < we /\ end_offset > start_offset
        THEN << <<start_offset, end_offset>> >>
        ELSE << >>

\* valid_intervals_seconds: offsets from the window start, in order
ValidIntervalsSeconds(h, date) ==
    LET ws == DuelWindowStartUtc(date)
        we == DuelWindowEndUtc(date)
        blackout_window == CalculateBlackoutWindowUtc(h, date)
    IN  IF blackout_window # None
        THEN IntervalBefore(ws, we, blackout_window[1])
                 \o IntervalAfter(ws, we, blackout_window[1])
        ELSE << <<0, we - ws>> >>

RECURSIVE SumDurations(_)
SumDurations(ivs) ==
    IF ivs = << >> THEN 0
    ELSE (ivs[1][2] - ivs[1][1]) + SumDurations(Tail(ivs))

TotalValidSeconds(h, date) == SumDurations(ValidIntervalsSeconds(h, date))

\* the loop with the start of the chosen interval left out of the offset
RECURSIVE OffsetMutantNoStart(_, _, _)
OffsetMutantNoStart(ivs, r, cumulative_seconds) ==
    IF ivs = << >> THEN 0
    ELSE LET duration == ivs[1][2] - ivs[1][1]
         IN  IF r < cumulative_seconds + duration
             THEN r
             ELSE OffsetMutantNoStart(Tail(ivs), r, cumulative_seconds + duration)

\* the loop with the draw equal to the cumulative length kept in the
\* earlier interval
RECURSIVE FinalOffsetBoundaryInclusive(_, _, _)
FinalOffsetBoundaryInclusive(ivs, r, cumulative_seconds) ==
    IF ivs = << >> THEN 0
    ELSE LET duration == ivs[1][2] - ivs[1][1]
         IN  IF r <= cumulative_seconds + duration
             THEN ivs[1][1] + (r - cumulative_seconds)
             ELSE FinalOffsetBoundaryInclusive(Tail(ivs), r, cumulative_seconds + duration)

\* the loop over the intervals; final_offset_in_window stays 0 when no
\* interval takes the draw
RECURSIVE FinalOffsetInWindow(_, _, _)
FinalOffsetInWindow(ivs, r, cumulative_seconds) ==
    IF ivs = << >> THEN 0
    ELSE LET duration == ivs[1][2] - ivs[1][1]
         IN  IF r < cumulative_seconds + duration
             THEN ivs[1][1] + (r - cumulative_seconds)
             ELSE FinalOffsetInWindow(Tail(ivs), r, cumulative_seconds + duration)

\* whether generate_random_snipe_time_utc raises ValueError
GenerateRaises(h, date) ==
    \/ ValidIntervalsSeconds(h, date) = << >>
    \/ TotalValidSeconds(h, date) <= 0

\* the values random.randrange(total_valid_seconds) can return
RandRange(n) == 0..(n - 1)

\* generate_random_snipe_time_utc with the draw r of the random source
GenerateRandomSnipeTimeUtc(h, date, r) ==
    DuelWindowStartUtc(date)
        + FinalOffsetInWindow(ValidIntervalsSeconds(h, date), r, 0)

\* the check-in test with the upper bound excluded
CheckinTimeUpperExcluded(snipe_time_utc, checkin_time_utc, tolerance_minutes) ==
    LET lower_bound == snipe_time_utc - tolerance_minutes * Minute
        upper_bound == snipe_time_utc + tolerance_minutes * Minute
    IN  lower_bound <= checkin_time_utc /\ checkin_time_utc < upper_bound

\* is_valid_checkin_time on two UTC instants
IsValidCheckinTime(snipe_time_utc, checkin_time_utc, tolerance_minutes) ==
    LET lower_bound == snipe_time_utc - tolerance_minutes * Minute
        upper_bound == snipe_time_utc + tolerance_minutes * Minute
    IN  lower_bound <= checkin_time_utc /\ checkin_time_utc <= upper_bound

\* the prediction test with the window's end instant counted as inside
PredictionTimeEndIncluded(current_time_utc, h, date) ==
    LET ws == DuelWindowStartUtc(date)
        we == DuelWindowEndUtc(date)
        blackout_window == CalculateBlackoutWindowUtc(h, date)
    IN  IF current_time_utc < ws \/ current_time_utc > we
        THEN TRUE
        ELSE IF blackout_window # None
                /\ blackout_window[1][1] <= current_time_utc
                /\ current_time_utc < blackout_window[1][2]
             THEN TRUE
             ELSE FALSE

\* the prediction test with the blackout's end instant counted as blackout
PredictionTimeBlackoutEndIncluded(current_time_utc, h, date) ==
    LET ws == DuelWindowStartUtc(date)
        we == DuelWindowEndUtc(date)
        blackout_window == CalculateBlackoutWindowUtc(h, date)
    IN  IF current_time_utc < ws \/ current_time_utc >= we
        THEN TRUE
        ELSE IF blackout_window # None
                /\ blackout_window[1][1] <= current_time_utc
                /\ current_time_utc <= blackout_window[1][2]
             THEN TRUE
             ELSE FALSE

\* is_valid_prediction_time on a UTC instant
IsValidPredictionTime(current_time_utc, h, date) ==
    LET ws == DuelWindowStartUtc(date)
        we == DuelWindowEndUtc(date)
        blackout_window == CalculateBlackoutWindowUtc(h, date)
    IN  IF current_time_utc < ws \/ current_time_utc >= we
        THEN TRUE
        ELSE IF blackout_window # None
                /\ blackout_window[1][1] <= current_time_utc
                /\ current_time_utc < blackout_window[1][2]
             THEN TRUE
             ELSE FALSE

\* Earth radius in metres
R == 6371000

\* Coordinates are whole degrees, multiples of 90, where the terms of the
\* Haversine formula are exact: cos of a multiple of 90 degrees
CosDeg(d) ==
    LET m == d % 360
    IN  IF m = 0 THEN 1 ELSE IF m = 180 THEN -1 ELSE 0

\* 4 * a, with sin(x/2)**2 = (1 - cos x) / 2
HaversineA4(lat1, lon1, lat2, lon2) ==
    LET dlon == lon2 - lon1
        dlat == lat2 - lat1
    IN  2 * (1 - CosDeg(dlat))
            + CosDeg(lat1) * CosDeg(lat2) * 2 * (1 - CosDeg(dlon))

\* c = 2 * atan2(sqrt(a), sqrt(1 - a)) in microradians: 0, pi/2 or pi
CentralAngleMicro(a4) ==
    IF a4 <= 0 THEN 0 ELSE IF a4 < 4 THEN 1570796 ELSE 3141593

Abs(x) == IF x < 0 THEN 0 - x ELSE x

\* the two longitudes are on one meridian, or on opposite meridians
SameMeridian(lon1, lon2) == (lon2 - lon1) % 360 = 0

OppositeMeridians(lon1, lon2) == (lon2 - lon1) % 360 = 180

\* two points on one great circle through the poles: the central angle in
\* whole degrees
MeridianAngleDegrees(lat1, lon1, lat2, lon2) ==
    IF SameMeridian(lon1, lon2) THEN Abs(lat2 - lat1)
    ELSE 180 - Abs(lat1 + lat2)

\* the whole-degree latitudes at which sin(lat)**2 + cos(lat)**2 evaluates to
\* 1.0000000000000002 in IEEE double arithmetic
LatitudesRoundedAboveOne == {8, 12, 82}

\* line 218-219 on two antipodal points: sin(dlon / 2)**2 is 1.0 and a is
\* sin(lat)**2 + cos(lat)**2 as rounded, so 1 - a is negative at those
\* latitudes and math.sqrt raises ValueError
HaversineRaises(lat1, lon1, lat2, lon2) ==
    /\ OppositeMeridians(lon1, lon2)
    /\ lat2 = 0 - lat1
    /\ Abs(lat1) \in LatitudesRoundedAboveOne

\* calculate_haversine_distance when it returns, R * c in whole metres (the
\* product is taken in two parts to stay within 32 bits); the points are on
\* one great circle through the poles, or all four coordinates are multiples
\* of 90
CalculateHaversineDistance(lat1, lon1, lat2, lon2) ==
    LET c == IF SameMeridian(lon1, lon2) \/ OppositeMeridians(lon1, lon2)
             THEN (MeridianAngleDegrees(lat1, lon1, lat2, lon2) * 3141593) \div 180
             ELSE CentralAngleMicro(HaversineA4(lat1, lon1, lat2, lon2))
        km == R \div 1000
    IN  km * (c \div 1000) + (km * (c % 1000)) \div 1000

\* ------------------------------------------------------------------ the duel row

U1 == 1

U2 == 2

\* the row request_duel inserts: every other column NULL or its default
NewDuel(date) ==
    [ status |-> "PENDING", duel_date |-> date,
      snipe_time_user1 |-> None, snipe_time_user2 |-> None,
      user1_predicted_lat |-> None, user1_predicted_lon |-> None,
      user2_predicted_lat |-> None, user2_predicted_lon |-> None,
      user1_actual_lat |-> None, user1_actual_lon |-> None,
      user2_actual_lat |-> None, user2_actual_lon |-> None,
      user1_dq |-> FALSE, user2_dq |-> FALSE,
      user1_final_distance |-> None, user2_final_distance |-> None,
      winner_user_id |-> None,
      accepted_at |-> None, completed_at |-> None ]

\* no row with the duel's id: before the request ("NONE"), after a decline
\* ("DELETED")
NoRow(mark) == [NewDuel(0) EXCEPT !.status = mark]

RowExists(d) == d.status \in {"PENDING", "ACTIVE", "COMPLETED"}

\* ------------------------------------------------------------------ result calculation

\* the deadline check with the deadline instant itself counted as missed
DqAtDeadline(stored_dq, actual_lat, snipe_time, now) ==
    LET dq_grace_period == (CHECKIN_TOLERANCE_MINUTES + DQ_EXTRA_MINUTES) * Minute
    IN  stored_dq \/ (actual_lat = None /\ now >= snipe_time[1] + dq_grace_period)

\* the disqualification flags after the deadline check
DqAfterDeadline(stored_dq, actual_lat, snipe_time, now) ==
    LET dq_grace_period == (CHECKIN_TOLERANCE_MINUTES + DQ_EXTRA_MINUTES) * Minute
    IN  stored_dq \/ (actual_lat = None /\ now > snipe_time[1] + dq_grace_period)

\* both sides' prediction and actual coordinates are all present
AllCoordinatesPresent(d) ==
    /\ d.user1_predicted_lat # None /\ d.user1_predicted_lon # None
    /\ d.user2_actual_lat # None /\ d.user2_actual_lon # None
    /\ d.user2_predicted_lat # None /\ d.user2_predicted_lon # None
    /\ d.user1_actual_lat # None /\ d.user1_actual_lon # None

\* line 99-100: one of the two distance computations raises
DistanceRaises(d) ==
    /\ AllCoordinatesPresent(d)
    /\ \/ HaversineRaises(d.user1_predicted_lat[1], d.user1_predicted_lon[1],
                          d.user2_actual_lat[1], d.user2_actual_lon[1])
       \/ HaversineRaises(d.user2_predicted_lat[1], d.user2_predicted_lon[1],
                          d.user1_actual_lat[1], d.user1_actual_lon[1])

\* distance1 computed as soon as user1's prediction and user2's actual
\* coordinate are stored
Distance1FromOwnPair(d) ==
    IF /\ d.user1_predicted_lat # None /\ d.user1_predicted_lon # None
       /\ d.user2_actual_lat # None /\ d.user2_actual_lon # None
    THEN Some(CalculateHaversineDistance(d.user1_predicted_lat[1], d.user1_predicted_lon[1],
                                         d.user2_actual_lat[1], d.user2_actual_lon[1]))
    ELSE None

Distance1(d) ==
    IF AllCoordinatesPresent(d)
    THEN Some(CalculateHaversineDistance(d.user1_predicted_lat[1], d.user1_predicted_lon[1],
                                         d.user2_actual_lat[1], d.user2_actual_lon[1]))
    ELSE None

Distance2(d) ==
    IF AllCoordinatesPresent(d)
    THEN Some(CalculateHaversineDistance(d.user2_predicted_lat[1], d.user2_predicted_lon[1],
                                         d.user1_actual_lat[1], d.user1_actual_lon[1]))
    ELSE None

\* the winner branches with the "both disqualified" branch left out
WinnerWithoutBothDq(u1_dq, u2_dq, distance1, distance2) ==
    IF u1_dq THEN Some(U2)
    ELSE IF u2_dq THEN Some(U1)
    ELSE IF distance1 # None /\ distance2 # None
         THEN IF distance1[1] < distance2[1] THEN Some(U1)
              ELSE IF distance2[1] < distance1[1] THEN Some(U2)
              ELSE None
         ELSE IF distance1 # None THEN Some(U1)
         ELSE IF distance2 # None THEN Some(U2)
         ELSE None

\* the winner branches with user1 as the winner of the last branch
WinnerDefaultU1(u1_dq, u2_dq, distance1, distance2) ==
    IF u1_dq /\ u2_dq THEN None
    ELSE IF u1_dq THEN Some(U2)
    ELSE IF u2_dq THEN Some(U1)
    ELSE IF distance1 # None /\ distance2 # None
         THEN IF distance1[1] < distance2[1] THEN Some(U1)
              ELSE IF distance2[1] < distance1[1] THEN Some(U2)
              ELSE None
         ELSE Some(U1)

\* the winner branches with the "elif u2_dq" branch left out
WinnerIgnoringU2Dq(u1_dq, u2_dq, distance1, distance2) ==
    IF u1_dq /\ u2_dq THEN None
    ELSE IF u1_dq THEN Some(U2)
    ELSE IF distance1 # None /\ distance2 # None
         THEN IF distance1[1] < distance2[1] THEN Some(U1)
              ELSE IF distance2[1] < distance1[1] THEN Some(U2)
              ELSE None
         ELSE IF distance1 # None THEN Some(U1)
         ELSE IF distance2 # None THEN Some(U2)
         ELSE None

\* winner_id, from the flags and the distances
DetermineWinner(u1_dq, u2_dq, distance1, distance2) ==
    IF u1_dq /\ u2_dq THEN None
    ELSE IF u1_dq THEN Some(U2)
    ELSE IF u2_dq THEN Some(U1)
    ELSE IF distance1 # None /\ distance2 # None
         THEN IF distance1[1] < distance2[1] THEN Some(U1)
              ELSE IF distance2[1] < distance1[1] THEN Some(U2)
              ELSE None
         ELSE IF distance1 # None THEN Some(U1)
         ELSE IF distance2 # None THEN Some(U2)
         ELSE None

NoPayload ==
    [ write |-> FALSE, user1_dq |-> FALSE, user2_dq |-> FALSE,
      user1_final_distance |-> None, user2_final_distance |-> None,
      winner_user_id |-> None, completed_at |-> None ]

\* the calculation without the early return on a COMPLETED row
UpdatePayloadNoCompletedCheck(d, now) ==
    IF ~RowExists(d) THEN NoPayload
    ELSE IF d.snipe_time_user1 = None \/ d.snipe_time_user2 = None THEN NoPayload
    ELSE LET u1_dq == DqAfterDeadline(d.user1_dq, d.user1_actual_lat, d.snipe_time_user1, now)
             u2_dq == DqAfterDeadline(d.user2_dq, d.user2_actual_lat, d.snipe_time_user2, now)
             dq_any == u1_dq \/ u2_dq
             distance1 == IF dq_any THEN None ELSE Distance1(d)
             distance2 == IF dq_any THEN None ELSE Distance2(d)
         IN  IF ~dq_any /\ DistanceRaises(d) THEN NoPayload
             ELSE [ write |-> TRUE, user1_dq |-> u1_dq, user2_dq |-> u2_dq,
                    user1_final_distance |-> distance1,
                    user2_final_distance |-> distance2,
                    winner_user_id |-> DetermineWinner(u1_dq, u2_dq, distance1, distance2),
                    completed_at |-> Some(now) ]

\* the calculation going on without a deadline for a missing snipe time
\* instead of returning
UpdatePayloadMissingSnipeNoDeadline(d, now) ==
    IF ~RowExists(d) \/ d.status = "COMPLETED" THEN NoPayload
    ELSE LET u1_dq == IF d.snipe_time_user1 = None THEN d.user1_dq
                      ELSE DqAfterDeadline(d.user1_dq, d.user1_actual_lat,
                                           d.snipe_time_user1, now)
             u2_dq == IF d.snipe_time_user2 = None THEN d.user2_dq
                      ELSE DqAfterDeadline(d.user2_dq, d.user2_actual_lat,
                                           d.snipe_time_user2, now)
             dq_any == u1_dq \/ u2_dq
             distance1 == IF dq_any THEN None ELSE Distance1(d)
             distance2 == IF dq_any THEN None ELSE Distance2(d)
         IN  IF ~dq_any /\ DistanceRaises(d) THEN NoPayload
             ELSE [ write |-> TRUE, user1_dq |-> u1_dq, user2_dq |-> u2_dq,
                    user1_final_distance |-> distance1,
                    user2_final_distance |-> distance2,
                    winner_user_id |-> DetermineWinner(u1_dq, u2_dq, distance1, distance2),
                    completed_at |-> Some(now) ]

\* _calculate_and_update_duel_results up to the update: what it decides to
\* write from the row d it fetched and the instant now it read; an exception
\* from the distance computation is caught at line 129 and nothing is written
UpdatePayload(d, now) ==
    IF ~RowExists(d) \/ d.status = "COMPLETED" THEN NoPayload
    ELSE IF d.snipe_time_user1 = None \/ d.snipe_time_user2 = None THEN NoPayload
    ELSE LET u1_dq == DqAfterDeadline(d.user1_dq, d.user1_actual_lat, d.snipe_time_user1, now)
             u2_dq == DqAfterDeadline(d.user2_dq, d.user2_actual_lat, d.snipe_time_user2, now)
             dq_any == u1_dq \/ u2_dq
             distance1 == IF dq_any THEN None ELSE Distance1(d)
             distance2 == IF dq_any THEN None ELSE Distance2(d)
         IN  IF ~dq_any /\ DistanceRaises(d) THEN NoPayload
             ELSE [ write |-> TRUE, user1_dq |-> u1_dq, user2_dq |-> u2_dq,
                    user1_final_distance |-> distance1,
                    user2_final_distance |-> distance2,
                    winner_user_id |-> DetermineWinner(u1_dq, u2_dq, distance1, distance2),
                    completed_at |-> Some(now) ]

\* the update of the row with the payload (no row: nothing is updated)
ApplyPayload(d, pl) ==
    IF ~RowExists(d) THEN d
    ELSE [d EXCEPT !.user1_dq = pl.user1_dq, !.user2_dq = pl.user2_dq,
                   !.user1_final_distance = pl.user1_final_distance,
                   !.user2_final_distance = pl.user2_final_distance,
                   !.winner_user_id = pl.winner_user_id,
                   !.status = "COMPLETED",
                   !.completed_at = pl.completed_at]

\* ------------------------------------------------------------------ request handlers

\* the server clock: 11:00 UTC of day 0, then every four hours
ClockAt(k) == 11 * Hour + k * (4 * Hour)

\* get_today_utc
TodayUtc(now) == now \div Day

\* draws of the random source tried by the accept handler: MaxDraws values
\* spread evenly over randrange(n)
MaxDraws == 2

SampledDraws(n) == {k * (n \div MaxDraws) : k \in 0..(MaxDraws - 1)}

\* usernames of requests: the two participants and a registered third user
Usernames == {1, 2, 3}

\* coordinates sent by predict and check-in requests: <<latitude, longitude>>
RequestCoordinates == {<<0, 0>>, <<0, 90>>}

\* the timestamp of a check-in request: a wall-clock reading and its zone
\* ("naive": none; otherwise the UTC offset in seconds)
CheckinOffsets == {0 - (CHECKIN_TOLERANCE_MINUTES * Minute + 1),
                   0 - CHECKIN_TOLERANCE_MINUTES * Minute,
                   0,
                   CHECKIN_TOLERANCE_MINUTES * Minute,
                   CHECKIN_TOLERANCE_MINUTES * Minute + 1}

IdleLoc ==
    [ user |-> 0, lat |-> 0, lon |-> 0, now |-> 0,
      other_user_checked_in |-> FALSE,
      u1_blackout |-> None, u2_blackout |-> None,
      req_id |-> 0, opp_id |-> 0, today |-> 0,
      payload |-> NoPayload ]

Finish(p) ==
    /\ pc' = [pc EXCEPT ![p] = "idle"]
    /\ loc' = [loc EXCEPT ![p] = IdleLoc]

Goto(p, label, l) ==
    /\ pc' = [pc EXCEPT ![p] = label]
    /\ loc' = [loc EXCEPT ![p] = l]

\* the server clock moves forward
Tick ==
    /\ \E k \in 1..MaxTick : clock = ClockAt(k - 1) /\ clock' = ClockAt(k)
    /\ UNCHANGED <<duel, duels, blackout, pc, loc, call>>

\* request_duel: the row is inserted PENDING with today's date (the checks
\* against other duels of the two users pass: this is their only duel)
RequestDuel ==
    /\ duel.status = "NONE"
    /\ duel' = NewDuel(TodayUtc(clock))
    /\ UNCHANGED <<duels, blackout, clock, pc, loc, call>>

\* accept_duel, line 238-241: fetch the row, reject unless PENDING
AcceptFetch(p) ==
    /\ pc[p] = "idle"
    /\ RowExists(duel) /\ duel.status = "PENDING"
    /\ Goto(p, "accept_u1", IdleLoc)
    /\ UNCHANGED <<duel, duels, blackout, clock, call>>

\* accept_duel, line 249/251: read user1's blackout hour
AcceptReadU1(p) ==
    /\ pc[p] = "accept_u1"
    /\ Goto(p, "accept_u2", [loc[p] EXCEPT !.u1_blackout = blackout[U1]])
    /\ UNCHANGED <<duel, duels, blackout, clock, call>>

\* accept_duel, line 250/252: read user2's blackout hour
AcceptReadU2(p) ==
    /\ pc[p] = "accept_u2"
    /\ Goto(p, "accept_update", [loc[p] EXCEPT !.u2_blackout = blackout[U2]])
    /\ UNCHANGED <<duel, duels, blackout, clock, call>>

\* the two hours swapped: each snipe time from the opponent's blackout hour
SnipeBlackoutsOpponent(l) == <<l.u2_blackout, l.u1_blackout>>

\* which users' blackout hours the two snipe times are generated from:
\* <<the hour for snipe_time_user1, the hour for snipe_time_user2>>
SnipeBlackouts(l) == <<l.u1_blackout, l.u2_blackout>>

\* accept's update with snipe_time_user2 left out of the payload
AcceptedRowWithoutSecondSnipe(d, s1, s2, now) ==
    IF ~RowExists(d) THEN d
    ELSE [d EXCEPT !.snipe_time_user1 = Some(s1),
                   !.status = "ACTIVE",
                   !.accepted_at = Some(now)]

\* the row after accept's update, which is keyed by the id alone
AcceptedRow(d, s1, s2, now) ==
    IF ~RowExists(d) THEN d
    ELSE [d EXCEPT !.snipe_time_user1 = Some(s1),
                   !.snipe_time_user2 = Some(s2),
                   !.status = "ACTIVE",
                   !.accepted_at = Some(now)]

\* accept_duel, line 255-265: generate both snipe times, update the row
AcceptUpdate(p) ==
    /\ pc[p] = "accept_update"
    /\ LET date == duel.duel_date
           h == SnipeBlackouts(loc[p])
       IN  IF ~RowExists(duel) \/ GenerateRaises(h[1], date) \/ GenerateRaises(h[2], date)
           THEN duel' = duel
           ELSE \E r1 \in SampledDraws(TotalValidSeconds(h[1], date)),
                   r2 \in SampledDraws(TotalValidSeconds(h[2], date)) :
                    duel' = AcceptedRow(duel,
                                        GenerateRandomSnipeTimeUtc(h[1], date, r1),
                                        GenerateRandomSnipeTimeUtc(h[2], date, r2),
                                        clock)
    /\ Finish(p)
    /\ UNCHANGED <<duels, blackout, clock, call>>

\* decline_duel, line 285-288: fetch the row, reject unless PENDING
DeclineFetch(p) ==
    /\ pc[p] = "idle"
    /\ RowExists(duel) /\ duel.status = "PENDING"
    /\ Goto(p, "decline_delete", IdleLoc)
    /\ UNCHANGED <<duel, duels, blackout, clock, call>>

\* the delete keyed by the id alone
DeclinedRowAnyStatus(d) == IF RowExists(d) THEN NoRow("DELETED") ELSE d

\* the row after decline's delete, which matches the id and status PENDING
DeclinedRow(d) ==
    IF RowExists(d) /\ d.status = "PENDING" THEN NoRow("DELETED") ELSE d

\* decline_duel, line 291: delete where id matches and status is PENDING
DeclineDelete(p) ==
    /\ pc[p] = "decline_delete"
    /\ duel' = DeclinedRow(duel)
    /\ Finish(p)
    /\ UNCHANGED <<duels, blackout, clock, call>>

\* the prediction fetch without the test for a stored prediction
PredictFetchIgnoringStored(p) ==
    /\ pc[p] = "idle"
    /\ RowExists(duel) /\ duel.status = "ACTIVE"
    /\ \E user \in Usernames, c \in RequestCoordinates :
         /\ user \in {U1, U2}
         /\ Goto(p, "predict_now", [IdleLoc EXCEPT !.user = user, !.lat = c[1], !.lon = c[2]])
    /\ UNCHANGED <<duel, duels, blackout, clock, call>>

\* submit_prediction, line 345-373: fetch the row; reject unless ACTIVE, the
\* user is a participant and has no prediction stored in the fetched row
PredictFetch(p) ==
    /\ pc[p] = "idle"
    /\ RowExists(duel) /\ duel.status = "ACTIVE"
    /\ \E user \in Usernames, c \in RequestCoordinates :
         /\ \/ user = U1 /\ duel.user1_predicted_lat = None
            \/ user = U2 /\ duel.user2_predicted_lat = None
         /\ Goto(p, "predict_now", [IdleLoc EXCEPT !.user = user, !.lat = c[1], !.lon = c[2]])
    /\ UNCHANGED <<duel, duels, blackout, clock, call>>

\* submit_prediction, line 346-348: after the user lookup, read the clock
PredictNow(p) ==
    /\ pc[p] = "predict_now"
    /\ Goto(p, "predict_validate", [loc[p] EXCEPT !.now = clock])
    /\ UNCHANGED <<duel, duels, blackout, clock, call>>

\* whose blackout hour validates the prediction of user: the opponent's
PredictionBlackout(user) == blackout[Opponent(user)]

\* submit_prediction, line 377-382: read the opponent's blackout hour and
\* validate the instant read before
PredictValidate(p) ==
    /\ pc[p] = "predict_validate"
    /\ IF IsValidPredictionTime(loc[p].now, PredictionBlackout(loc[p].user), duel.duel_date)
       THEN Goto(p, "predict_update", loc[p])
       ELSE Finish(p)
    /\ UNCHANGED <<duel, duels, blackout, clock, call>>

\* the row after the prediction update, keyed by the id alone
PredictedRow(d, user, lat, lon) ==
    IF ~RowExists(d) THEN d
    ELSE IF user = U1
         THEN [d EXCEPT !.user1_predicted_lat = Some(lat), !.user1_predicted_lon = Some(lon)]
         ELSE [d EXCEPT !.user2_predicted_lat = Some(lat), !.user2_predicted_lon = Some(lon)]

\* submit_prediction, line 385-389
PredictUpdate(p) ==
    /\ pc[p] = "predict_update"
    /\ duel' = PredictedRow(duel, loc[p].user, loc[p].lat, loc[p].lon)
    /\ Finish(p)
    /\ UNCHANGED <<duels, blackout, clock, call>>

\* submit_checkin, line 412-413: a naive timestamp is taken as UTC
\* the timestamp passed on as received
NaiveKeptNaive(ts) == ts

NormalizeCheckinTime(ts) == IF ts.tz = None THEN [ts EXCEPT !.tz = Some(0)] ELSE ts

\* the zone test that lets every zone-aware timestamp through
RaisesOnlyWhenNaive(ts) == ts.tz = None

\* is_valid_checkin_time, line 146-153: raises unless the zone is UTC
CheckinTimeRaises(ts) == ts.tz = None \/ ts.tz[1] # 0

\* what a utility call ends with: a returned boolean, or ValueError
Returned(b) == [raised |-> FALSE, value |-> b]

Raised == [raised |-> TRUE, value |-> FALSE]

\* is_valid_prediction_time, line 172-199, on a zoned timestamp
IsValidPredictionTimeOutcome(current_time_utc, h, date) ==
    IF CheckinTimeRaises(current_time_utc) THEN Raised
    ELSE Returned(IsValidPredictionTime(current_time_utc.wall, h, date))

\* the opponent's snipe time in place of the participant's own
SnipeTimeOfOpponent(d, user) == IF user = U1 THEN d.snipe_time_user2 ELSE d.snipe_time_user1

\* the snipe time a check-in of user is validated against
SnipeTimeOf(d, user) == IF user = U1 THEN d.snipe_time_user1 ELSE d.snipe_time_user2

ActualLatOf(d, user) == IF user = U1 THEN d.user1_actual_lat ELSE d.user2_actual_lat

\* submit_checkin, line 407-454: fetch the row; reject unless ACTIVE, the
\* user is a participant with no check-in stored in the fetched row, and the
\* request's timestamp is within the tolerance of the user's snipe time
CheckinFetch(p) ==
    /\ pc[p] = "idle"
    /\ RowExists(duel) /\ duel.status = "ACTIVE"
    /\ \E user \in Usernames, c \in RequestCoordinates,
          off \in CheckinOffsets, tz \in {None, Some(0), Some(Hour)} :
         /\ user \in {U1, U2}
         /\ ActualLatOf(duel, user) = None
         /\ SnipeTimeOf(duel, user) # None
         /\ LET ts == NormalizeCheckinTime([wall |-> SnipeTimeOf(duel, user)[1] + off, tz |-> tz])
            IN  /\ ~CheckinTimeRaises(ts)
                /\ IsValidCheckinTime(SnipeTimeOf(duel, user)[1], ts.wall,
                                      CHECKIN_TOLERANCE_MINUTES)
         /\ Goto(p, "checkin_update",
                 [IdleLoc EXCEPT !.user = user, !.lat = c[1], !.lon = c[2],
                                 !.other_user_checked_in =
                                     (ActualLatOf(duel, Opponent(user)) # None)])
    /\ UNCHANGED <<duel, duels, blackout, clock, call>>

\* the row after the check-in update, keyed by the id alone
CheckedInRow(d, user, lat, lon) ==
    IF ~RowExists(d) THEN d
    ELSE IF user = U1
         THEN [d EXCEPT !.user1_actual_lat = Some(lat), !.user1_actual_lon = Some(lon)]
         ELSE [d EXCEPT !.user2_actual_lat = Some(lat), !.user2_actual_lon = Some(lon)]

\* submit_checkin, line 456-471: store the coordinates; go on to the result
\* calculation only if the fetched row held the other user's check-in
CheckinUpdate(p) ==
    /\ pc[p] = "checkin_update"
    /\ duel' = CheckedInRow(duel, loc[p].user, loc[p].lat, loc[p].lon)
    /\ IF loc[p].other_user_checked_in
       THEN Goto(p, "results_fetch", IdleLoc)
       ELSE Finish(p)
    /\ UNCHANGED <<duels, blackout, clock, call>>

\* _calculate_and_update_duel_results, line 39-126: fetch the row, read the
\* clock, decide the payload
ResultsFetch(p) ==
    /\ pc[p] = "results_fetch"
    /\ LET pl == UpdatePayload(duel, clock)
       IN  IF pl.write
           THEN Goto(p, "results_update", [IdleLoc EXCEPT !.payload = pl])
           ELSE Finish(p)
    /\ UNCHANGED <<duel, duels, blackout, clock, call>>

\* _calculate_and_update_duel_results, line 127: update keyed by the id alone
ResultsUpdate(p) ==
    /\ pc[p] = "results_update"
    /\ duel' = ApplyPayload(duel, loc[p].payload)
    /\ Finish(p)
    /\ UNCHANGED <<duels, blackout, clock, call>>

\* ------------------------------------------------------------------ specifications

NoCall == [fn |-> "none"]

\* no duel yet; user1 has no blackout hour, user2 has set 14
Init ==
    /\ duel = NoRow("NONE")
    /\ duels = << >>
    /\ blackout = (U1 :> None @@ U2 :> Some(14))
    /\ clock = ClockAt(0)
    /\ pc = [p \in Procs |-> "idle"]
    /\ loc = [p \in Procs |-> IdleLoc]
    /\ call = NoCall

Next ==
    \/ Tick
    \/ RequestDuel
    \/ \E p \in Procs : AcceptFetch(p)
    \/ \E p \in Procs : AcceptReadU1(p)
    \/ \E p \in Procs : AcceptReadU2(p)
    \/ \E p \in Procs : AcceptUpdate(p)
    \/ \E p \in Procs : DeclineFetch(p)
    \/ \E p \in Procs : DeclineDelete(p)
    \/ \E p \in Procs : PredictFetch(p)
    \/ \E p \in Procs : PredictNow(p)
    \/ \E p \in Procs : PredictValidate(p)
    \/ \E p \in Procs : PredictUpdate(p)
    \/ \E p \in Procs : CheckinFetch(p)
    \/ \E p \in Procs : CheckinUpdate(p)
    \/ \E p \in Procs : ResultsFetch(p)
    \/ \E p \in Procs : ResultsUpdate(p)

Spec == Init /\ [][Next]_vars

\* ---- generate_random_snipe_time_utc applied to drawn arguments

\* blackout hours passed to the time utilities: absent, 12..19, and the two
\* nearest hours outside the range
UtilityHours == {None} \cup {Some(h) : h \in 11..20}

Dates == 0..MaxDate

GenInit ==
    /\ duel = NoRow("NONE")
    /\ duels = << >>
    /\ blackout = [u \in Users |-> None]
    /\ clock = ClockAt(0)
    /\ pc = [p \in Procs |-> "idle"]
    /\ loc = [p \in Procs |-> IdleLoc]
    /\ call = NoCall

\* one call generate_random_snipe_time_utc(h, date) in which the random
\* source returns r
GenerateCall ==
    /\ call = NoCall
    /\ \E h \in UtilityHours, date \in Dates :
         IF GenerateRaises(h, date)
         THEN call' = [fn |-> "generate", h |-> h, date |-> date, r |-> 0,
                       valid_intervals_seconds |-> ValidIntervalsSeconds(h, date),
                       total_valid_seconds |-> TotalValidSeconds(h, date),
                       raised |-> TRUE, result |-> 0]
         ELSE \E r \in RandRange(TotalValidSeconds(h, date)) :
                call' = [fn |-> "generate", h |-> h, date |-> date, r |-> r,
                         valid_intervals_seconds |-> ValidIntervalsSeconds(h, date),
                         total_valid_seconds |-> TotalValidSeconds(h, date),
                         raised |-> FALSE,
                         result |-> GenerateRandomSnipeTimeUtc(h, date, r)]
    /\ UNCHANGED <<duel, duels, blackout, clock, pc, loc>>

\* the instant generate_random_snipe_time_utc(h, date) returns for the draw
\* r, a zone-aware UTC datetime, passed to is_valid_prediction_time with the
\* same hour and date
PredictAtSnipeTimeCall ==
    /\ call = NoCall
    /\ \E h \in UtilityHours, date \in Dates :
         /\ ~GenerateRaises(h, date)
         /\ \E r \in RandRange(TotalValidSeconds(h, date)) :
              LET snipe_time_utc == GenerateRandomSnipeTimeUtc(h, date, r)
              IN  call' = [fn |-> "predict_at_snipe_time", h |-> h, date |-> date,
                           r |-> r, snipe_time_utc |-> snipe_time_utc,
                           result |-> IsValidPredictionTimeOutcome(
                                          [wall |-> snipe_time_utc, tz |-> Some(0)],
                                          h, date)]
    /\ UNCHANGED <<duel, duels, blackout, clock, pc, loc>>

GenNext == GenerateCall \/ PredictAtSnipeTimeCall

GenSpec == GenInit /\ [][GenNext]_vars

\* ---- the result calculation applied to drawn rows at drawn instants

CalcSnipeTimes == {None, Some(12 * Hour), Some(18 * Hour)}

\* stored coordinates: absent, or one of three points of one great circle
\* through the poles, two of them antipodal
CalcCoordinates == {None, Some(<<0, 0>>), Some(<<82, 0>>), Some(<<0 - 82, 180>>)}

\* instants around the two grace deadlines
CalcInstants ==
    {11 * Hour,
     12 * Hour + ((CHECKIN_TOLERANCE_MINUTES + DQ_EXTRA_MINUTES) * Minute), 12 * Hour + ((CHECKIN_TOLERANCE_MINUTES + DQ_EXTRA_MINUTES) * Minute) + 1,
     18 * Hour + ((CHECKIN_TOLERANCE_MINUTES + DQ_EXTRA_MINUTES) * Minute), 18 * Hour + ((CHECKIN_TOLERANCE_MINUTES + DQ_EXTRA_MINUTES) * Minute) + 1}

LatOf(c) == IF c = None THEN None ELSE Some(c[1][1])

LonOf(c) == IF c = None THEN None ELSE Some(c[1][2])

\* rows that are not COMPLETED yet, with every combination of stored values
CalcRows ==
    { [NewDuel(0) EXCEPT
         !.status = st,
         !.snipe_time_user1 = s1, !.snipe_time_user2 = s2,
         !.user1_predicted_lat = LatOf(p1), !.user1_predicted_lon = LonOf(p1),
         !.user2_predicted_lat = LatOf(p2), !.user2_predicted_lon = LonOf(p2),
         !.user1_actual_lat = LatOf(a1), !.user1_actual_lon = LonOf(a1),
         !.user2_actual_lat = LatOf(a2), !.user2_actual_lon = LonOf(a2),
         !.user1_dq = q1, !.user2_dq = q2 ] :
      st \in {"PENDING", "ACTIVE"},
      s1 \in CalcSnipeTimes, s2 \in CalcSnipeTimes,
      p1 \in CalcCoordinates, p2 \in CalcCoordinates,
      a1 \in CalcCoordinates, a2 \in CalcCoordinates,
      q1 \in BOOLEAN, q2 \in BOOLEAN }

CalcInit ==
    /\ duel \in CalcRows
    /\ duels = << >>
    /\ blackout = [u \in Users |-> None]
    /\ clock \in CalcInstants
    /\ pc = [p \in Procs |-> "idle"]
    /\ loc = [p \in Procs |-> IdleLoc]
    /\ call = NoCall

\* one run of _calculate_and_update_duel_results with nothing in between
CalculateCall ==
    /\ LET pl == UpdatePayload(duel, clock)
       IN  /\ duel' = IF pl.write THEN ApplyPayload(duel, pl) ELSE duel
           /\ call' = [fn |-> "calculate", before |-> duel, now |-> clock,
                       wrote |-> pl.write]
    /\ UNCHANGED <<duels, blackout, clock, pc, loc>>

\* time passes between two runs
CalcAdvance ==
    /\ \E t \in CalcInstants : t > clock /\ clock' = t
    /\ call' = NoCall
    /\ UNCHANGED <<duel, duels, blackout, pc, loc>>

CalcNext == CalculateCall \/ CalcAdvance

CalcSpec == CalcInit /\ [][CalcNext]_vars

\* ---- accept_duel with every blackout setting of the two users

\* update_user_settings: the validated hour, or null, is stored
UpdateUserSettings ==
    /\ \E u \in Users, h \in BlackoutSettings : blackout' = [blackout EXCEPT ![u] = h]
    /\ UNCHANGED <<duel, duels, clock, pc, loc, call>>

\* users are created with blackout_start_hour NULL
AcceptInit ==
    /\ duel = NoRow("NONE")
    /\ duels = << >>
    /\ blackout = [u \in Users |-> None]
    /\ clock = ClockAt(0)
    /\ pc = [p \in Procs |-> "idle"]
    /\ loc = [p \in Procs |-> IdleLoc]
    /\ call = NoCall

AcceptNext ==
    \/ UpdateUserSettings
    \/ RequestDuel
    \/ AcceptFetch(1)
    \/ AcceptReadU1(1)
    \/ AcceptReadU2(1)
    \/ AcceptUpdate(1)

AcceptSpec == AcceptInit /\ [][AcceptNext]_vars

\* ------------------------------------------------------------------ claims

\* no handler is between two of its steps: from here on the row changes only
\* if a client sends a further request
Quiescent == \A p \in Procs : pc[p] = "idle"

PredictedOf(d, user) ==
    IF user = U1 THEN <<d.user1_predicted_lat, d.user1_predicted_lon>>
    ELSE <<d.user2_predicted_lat, d.user2_predicted_lon>>

ActualOf(d, user) ==
    IF user = U1 THEN <<d.user1_actual_lat, d.user1_actual_lon>>
    ELSE <<d.user2_actual_lat, d.user2_actual_lon>>

DqOf(d, user) == IF user = U1 THEN d.user1_dq ELSE d.user2_dq

StoredResult(d) ==
    <<d.user1_dq, d.user2_dq, d.user1_final_distance, d.user2_final_distance,
      d.winner_user_id, d.completed_at>>

GraceSeconds == (CHECKIN_TOLERANCE_MINUTES + DQ_EXTRA_MINUTES) * Minute

\* C1: in every step, overlapping handlers included, the status of the stored
\* row either stays the same or goes PENDING -> ACTIVE or ACTIVE -> COMPLETED.
C1_StatusOnlyForward ==
    [][(RowExists(duel) /\ RowExists(duel') /\ duel'.status # duel.status)
         => <<duel.status, duel'.status>>
               \in {<<"PENDING", "ACTIVE">>, <<"ACTIVE", "COMPLETED">>}]_vars

\* C2: once the duel is ACTIVE (or later), no step changes snipe_time_user1 or
\* snipe_time_user2.
C2_SnipeTimesImmutable ==
    [][duel.status \in {"ACTIVE", "COMPLETED"}
         => /\ duel'.snipe_time_user1 = duel.snipe_time_user1
            /\ duel'.snipe_time_user2 = duel.snipe_time_user2]_vars

\* C3: once a result calculation has completed the duel, no step changes the
\* stored flags, distances, winner or completed_at: a second calculation that
\* overlaps the first writes nothing.
C3_ResultWrittenOnce ==
    [][duel.completed_at # None => StoredResult(duel') = StoredResult(duel)]_vars

\* C4: a participant's actual coordinate changes only from absent to a value,
\* and only in a step taken while the stored status is ACTIVE.
C4_ActualWrittenOnceWhileActive ==
    [][\A user \in Users :
          ActualOf(duel', user) # ActualOf(duel, user)
            => /\ ActualOf(duel, user) = <<None, None>>
               /\ duel.status = "ACTIVE"]_vars

\* C5: a participant's predicted coordinate changes only from absent to a
\* value; no later or concurrent submission overwrites it.
C5_PredictionWrittenOnce ==
    [][\A user \in Users :
          PredictedOf(duel', user) # PredictedOf(duel, user)
            => PredictedOf(duel, user) = <<None, None>>]_vars

\* C6: an ACTIVE duel holding both actual coordinates becomes COMPLETED
\* without a further client request; so it is never left ACTIVE with both
\* coordinates stored when no handler is running any more.
C6_BothCheckedInGetsCompleted ==
    (/\ Quiescent
     /\ duel.user1_actual_lat # None
     /\ duel.user2_actual_lat # None
     /\ RowExists(duel))
        => duel.status = "COMPLETED"

\* C7: if a participant has not checked in, the opponent has, and the clock
\* is past the participant's snipe time plus 5 minutes, the duel gets
\* adjudicated without a further client request: with no handler running any
\* more it is COMPLETED, the participant is disqualified and the opponent is
\* the stored winner.
C7_MissedCheckinIsAdjudicated ==
    \A user \in Users :
        (/\ Quiescent
         /\ duel.status \in {"ACTIVE", "COMPLETED"}
         /\ ActualLatOf(duel, user) = None
         /\ ActualLatOf(duel, Opponent(user)) # None
         /\ clock > SnipeTimeOf(duel, user)[1] + GraceSeconds)
            => /\ duel.status = "COMPLETED"
               /\ DqOf(duel, user)
               /\ duel.winner_user_id = Some(Opponent(user))

\* C8: for a blackout hour that is absent or in 12..19, the instant returned
\* lies in [date 12:00, (date+1) 00:00) and, when an hour h is given, outside
\* [date h:00, date h:00 + 5h).
C8_SnipeTimeInWindowOutsideBlackout ==
    (/\ call.fn = "generate"
     /\ (call.h = None \/ call.h[1] \in 12..19))
        => /\ ~call.raised
           /\ call.date * Day + 12 * Hour <= call.result
           /\ call.result < (call.date + 1) * Day
           /\ call.h # None
                => ~(/\ call.date * Day + call.h[1] * Hour <= call.result
                     /\ call.result < call.date * Day + (call.h[1] + 5) * Hour)

\* the draw that falls on the first second after a blackout in mid-window
C8_Witness ==
    /\ call.fn = "generate"
    /\ call.h = Some(14)
    /\ call.r = 2 * Hour
    /\ call.result = call.date * Day + 19 * Hour

\* the accept handler p stores its update in this step
AcceptStores(p) ==
    /\ pc[p] = "accept_update"
    /\ pc'[p] = "idle"
    /\ duel'.status = "ACTIVE"
    /\ duel' # duel

\* t lies in the blackout window of hour h (absent: no window) on the date
InBlackoutOf(t, h, date) ==
    /\ h # None
    /\ date * Day + h[1] * Hour <= t
    /\ t < date * Day + (h[1] + 5) * Hour

\* C9 as stated: the snipe times accept stores lie outside the opponent's
\* blackout window: snipe_time_user1 outside user2's, snipe_time_user2
\* outside user1's, for the settings the handler read.
C9_SnipeOutsideOpponentBlackout ==
    [][\A p \in Procs :
          AcceptStores(p)
            => /\ ~InBlackoutOf(duel'.snipe_time_user1[1], loc[p].u2_blackout, duel'.duel_date)
               /\ ~InBlackoutOf(duel'.snipe_time_user2[1], loc[p].u1_blackout, duel'.duel_date)]_vars

\* C9 amended: the snipe times accept stores lie outside the participant's
\* own blackout window, for the settings the handler read: snipe_time_user1
\* outside user1's, snipe_time_user2 outside user2's.
C9_SnipeOutsideOwnBlackout ==
    [][\A p \in Procs :
          AcceptStores(p)
            => /\ ~InBlackoutOf(duel'.snipe_time_user1[1], loc[p].u1_blackout, duel'.duel_date)
               /\ ~InBlackoutOf(duel'.snipe_time_user2[1], loc[p].u2_blackout, duel'.duel_date)]_vars

\* an accepted duel of two users with different blackout hours, user1's
\* snipe time inside user2's blackout window
C9_Witness ==
    /\ duel.status = "ACTIVE"
    /\ Quiescent
    /\ blackout[U1] = Some(12) /\ blackout[U2] = Some(14)
    /\ duel.accepted_at # None
    /\ InBlackoutOf(duel.snipe_time_user1[1], blackout[U2], duel.duel_date)
    /\ ~InBlackoutOf(duel.snipe_time_user1[1], blackout[U1], duel.duel_date)
    /\ ~InBlackoutOf(duel.snipe_time_user2[1], blackout[U2], duel.duel_date)

\* C10: a result calculation that ends with exactly one participant
\* disqualified stores the other participant as winner, whatever predictions
\* and actual coordinates the row holds.
C10_SingleDqLoses ==
    (call.fn = "calculate" /\ call.wrote)
        => /\ (duel.user1_dq /\ ~duel.user2_dq) => duel.winner_user_id = Some(U2)
           /\ (duel.user2_dq /\ ~duel.user1_dq) => duel.winner_user_id = Some(U1)

\* user2 missed the deadline, user1 checked in; user2 holds a prediction
\* and user1 none
C10_Witness ==
    /\ call.fn = "calculate" /\ call.wrote
    /\ ~call.before.user2_dq
    /\ duel.user2_dq /\ ~duel.user1_dq
    /\ duel.user1_actual_lat # None
    /\ duel.user2_predicted_lat # None /\ duel.user1_predicted_lat = None
    /\ duel.winner_user_id = Some(U1)
    /\ duel.status = "COMPLETED"

\* ---- claims about one result calculation (CalcSpec): call.before is the
\* row it fetched, call.now the instant it read, duel the row afterwards

Calculated == call.fn = "calculate" /\ call.wrote

\* the participant is due for disqualification on row d at instant now
DqDue(d, user, now) ==
    \/ DqOf(d, user)
    \/ /\ ActualLatOf(d, user) = None
       /\ now > SnipeTimeOf(d, user)[1] + 5 * Minute

\* the participant's own prediction and the opponent's actual coordinate are
\* both stored
CompletePair(d, user) ==
    /\ PredictedOf(d, user)[1] # None /\ PredictedOf(d, user)[2] # None
    /\ ActualOf(d, Opponent(user))[1] # None /\ ActualOf(d, Opponent(user))[2] # None

\* the distance from the participant's prediction to the opponent's actual
PairDistance(d, user) ==
    CalculateHaversineDistance(PredictedOf(d, user)[1][1], PredictedOf(d, user)[2][1],
                               ActualOf(d, Opponent(user))[1][1],
                               ActualOf(d, Opponent(user))[2][1])

\* C11: a result calculation on a duel where both participants are due for
\* disqualification stores both flags true and no winner.
C11_BothDqIsDraw ==
    (Calculated /\ DqDue(call.before, U1, call.now) /\ DqDue(call.before, U2, call.now))
        => /\ duel.user1_dq /\ duel.user2_dq
           /\ duel.winner_user_id = None
           /\ duel.status = "COMPLETED"

\* both missed the deadline; both predictions are stored
C11_Witness ==
    /\ Calculated
    /\ ~call.before.user1_dq /\ ~call.before.user2_dq
    /\ call.before.user1_actual_lat = None /\ call.before.user2_actual_lat = None
    /\ call.before.user1_predicted_lat # None /\ call.before.user2_predicted_lat # None
    /\ duel.user1_dq /\ duel.user2_dq
    /\ duel.winner_user_id = None

\* neither participant is due for disqualification on the fetched row, whose
\* snipe times are set
NeitherDqDue(d, now) ==
    /\ d.snipe_time_user1 # None /\ d.snipe_time_user2 # None
    /\ ~DqDue(d, U1, now) /\ ~DqDue(d, U2, now)

\* C12: a result calculation that finds neither participant disqualified and
\* both predictions and both actual coordinates stored completes the duel with
\* the two distances stored, the participant whose prediction is strictly
\* closer to the opponent's actual coordinate as winner, and no winner when
\* the distances are equal.
C12_CloserPredictionWins ==
    (/\ call.fn = "calculate"
     /\ call.before.status = "ACTIVE"
     /\ NeitherDqDue(call.before, call.now)
     /\ CompletePair(call.before, U1) /\ CompletePair(call.before, U2))
        => LET d1 == PairDistance(call.before, U1)
               d2 == PairDistance(call.before, U2)
           IN  /\ call.wrote
               /\ duel.status = "COMPLETED"
               /\ duel.user1_final_distance = Some(d1)
               /\ duel.user2_final_distance = Some(d2)
               /\ d1 < d2 => duel.winner_user_id = Some(U1)
               /\ d2 < d1 => duel.winner_user_id = Some(U2)
               /\ d1 = d2 => duel.winner_user_id = None

\* C13: on an ACTIVE duel where both participants have checked in, neither is
\* disqualified and exactly one side holds a complete pair (only one of the
\* two predictions is stored), that side is stored as winner.
C13_OnlyCompleteSideWins ==
    \A user \in Users :
        (/\ Calculated
         /\ call.before.status = "ACTIVE"
         /\ ActualLatOf(call.before, U1) # None /\ ActualLatOf(call.before, U2) # None
         /\ ~duel.user1_dq /\ ~duel.user2_dq
         /\ CompletePair(call.before, user)
         /\ ~CompletePair(call.before, Opponent(user)))
            => duel.winner_user_id = Some(user)

\* C14: with neither participant disqualified and neither side holding a
\* complete pair, no winner is stored.
C14_NoCompletePairIsDraw ==
    (/\ Calculated
     /\ ~duel.user1_dq /\ ~duel.user2_dq
     /\ ~CompletePair(call.before, U1) /\ ~CompletePair(call.before, U2))
        => /\ duel.winner_user_id = None
           /\ duel.status = "COMPLETED"

\* both checked in, nobody predicted
C14_Witness ==
    /\ Calculated
    /\ ~duel.user1_dq /\ ~duel.user2_dq
    /\ call.before.user1_actual_lat # None /\ call.before.user2_actual_lat # None
    /\ call.before.user1_predicted_lat = None /\ call.before.user2_predicted_lat = None
    /\ duel.winner_user_id = None

\* C15: the flag a calculation stores for a participant is true exactly when
\* it was already true or the participant has no actual coordinate and the
\* instant is strictly later than the participant's own snipe time plus 5
\* minutes.
C15_DqExactlyWhenDue ==
    Calculated
        => \A user \in Users :
              DqOf(duel, user)
                 <=> \/ DqOf(call.before, user)
                     \/ /\ ActualLatOf(call.before, user) = None
                        /\ call.now > SnipeTimeOf(call.before, user)[1] + 5 * Minute

\* at exactly snipe time + 5 minutes user2's missing check-in is not yet a
\* disqualification, while user1's deadline has passed
C15_Witness ==
    /\ Calculated
    /\ call.before.snipe_time_user1 = Some(12 * Hour)
    /\ call.before.snipe_time_user2 = Some(18 * Hour)
    /\ call.now = 18 * Hour + 5 * Minute
    /\ call.before.user1_actual_lat = None /\ call.before.user2_actual_lat = None
    /\ ~call.before.user1_dq /\ ~call.before.user2_dq
    /\ duel.user1_dq /\ ~duel.user2_dq

\* C16: a result calculation on a row that is already COMPLETED writes
\* nothing: the row afterwards is the row it fetched.
C16_CompletedIsNoOp ==
    (call.fn = "calculate" /\ call.before.status = "COMPLETED")
        => /\ ~call.wrote
           /\ duel = call.before

\* a second calculation at a later instant on a COMPLETED duel with a winner
C16_Witness ==
    /\ call.fn = "calculate"
    /\ call.before.status = "COMPLETED"
    /\ call.before.winner_user_id # None
    /\ call.before.completed_at # None
    /\ call.now > call.before.completed_at[1]

\* ---- the time utilities called on their own (UtilSpec): one call per run,
\* on any of the enumerated arguments

MaxToleranceMinutes == 3

\* snipe times a check-in is tested against
UtilSnipeTimes == {12 * Hour, Day + 18 * Hour + 7}

\* check-in instants relative to the snipe time, one second past the widest
\* tolerance on both sides
UtilCheckinOffsets ==
    (0 - (MaxToleranceMinutes * Minute + 1)) .. (MaxToleranceMinutes * Minute + 1)

\* instants around every full hour from the reference date's 00:00 to the
\* next day's 16:00
UtilInstants(date) ==
    { CombineUtc(date, k) + e : k \in 0..40, e \in {0 - 1, 0, 1} }

UtilInit ==
    /\ duel = NoRow("NONE")
    /\ duels = << >>
    /\ blackout = (U1 :> None @@ U2 :> None)
    /\ clock = ClockAt(0)
    /\ pc = [p \in Procs |-> "idle"]
    /\ loc = [p \in Procs |-> IdleLoc]
    /\ call = NoCall

CheckinTimeCall ==
    /\ call = NoCall
    /\ \E snipe_time_utc \in UtilSnipeTimes, off \in UtilCheckinOffsets,
          tolerance_minutes \in 0..MaxToleranceMinutes :
          call' = [ fn |-> "is_valid_checkin_time",
                    snipe_time_utc |-> snipe_time_utc,
                    checkin_time_utc |-> snipe_time_utc + off,
                    tolerance_minutes |-> tolerance_minutes,
                    result |-> IsValidCheckinTime(snipe_time_utc, snipe_time_utc + off,
                                                  tolerance_minutes) ]
    /\ UNCHANGED <<duel, duels, blackout, clock, pc, loc>>

PredictionTimeCall ==
    /\ call = NoCall
    /\ \E date \in Dates, h \in UtilityHours :
          \E current_time_utc \in UtilInstants(date) :
              call' = [ fn |-> "is_valid_prediction_time",
                        current_time_utc |-> current_time_utc,
                        h |-> h, date |-> date,
                        result |-> IsValidPredictionTime(current_time_utc, h, date) ]
    /\ UNCHANGED <<duel, duels, blackout, clock, pc, loc>>

BlackoutWindowCall ==
    /\ call = NoCall
    /\ \E date \in Dates, h \in UtilityHours :
          call' = [ fn |-> "calculate_blackout_window_utc",
                    h |-> h, date |-> date,
                    result |-> CalculateBlackoutWindowUtc(h, date) ]
    /\ UNCHANGED <<duel, duels, blackout, clock, pc, loc>>

\* timestamps as the utilities receive them: wall-clock fields and a zone
\* (none, or the UTC offset in seconds)
UtilZones == {None, Some(0), Some(Hour), Some(0 - Hour)}

UtilTimestamps(walls) == { [wall |-> w, tz |-> z] : w \in walls, z \in UtilZones }

\* is_valid_checkin_time, line 146-159, on optional zoned timestamps: False
\* when either is missing, ValueError unless both are zone-aware UTC
IsValidCheckinTimeOutcome(snipe_time_utc, checkin_time_utc, tolerance_minutes) ==
    IF snipe_time_utc = None \/ checkin_time_utc = None THEN Returned(FALSE)
    ELSE IF CheckinTimeRaises(snipe_time_utc[1]) THEN Raised
    ELSE IF CheckinTimeRaises(checkin_time_utc[1]) THEN Raised
    ELSE Returned(IsValidCheckinTime(snipe_time_utc[1].wall, checkin_time_utc[1].wall,
                                     tolerance_minutes))

CheckinTimeZonedCall ==
    /\ call = NoCall
    /\ \E snipe_time_utc \in {None} \cup {Some(t) : t \in UtilTimestamps({12 * Hour})},
          checkin_time_utc \in {None} \cup
              {Some(t) : t \in UtilTimestamps({12 * Hour, 12 * Hour + 2 * Minute,
                                               12 * Hour + 2 * Minute + 1})},
          tolerance_minutes \in 0..MaxToleranceMinutes :
          call' = [ fn |-> "checkin_time_outcome",
                    snipe_time_utc |-> snipe_time_utc,
                    checkin_time_utc |-> checkin_time_utc,
                    tolerance_minutes |-> tolerance_minutes,
                    result |-> IsValidCheckinTimeOutcome(snipe_time_utc, checkin_time_utc,
                                                         tolerance_minutes) ]
    /\ UNCHANGED <<duel, duels, blackout, clock, pc, loc>>

PredictionTimeZonedCall ==
    /\ call = NoCall
    /\ \E date \in Dates, h \in UtilityHours :
          \E current_time_utc \in
                UtilTimestamps({CombineUtc(date, 11), CombineUtc(date, 12),
                                CombineUtc(date, 17), CombineUtc(date, 24)}) :
              call' = [ fn |-> "prediction_time_outcome",
                        current_time_utc |-> current_time_utc,
                        h |-> h, date |-> date,
                        result |-> IsValidPredictionTimeOutcome(current_time_utc, h, date) ]
    /\ UNCHANGED <<duel, duels, blackout, clock, pc, loc>>

\* points of the great circle through the poles at longitude 0 and 180, and
\* two further points of the equator
HaversinePoints ==
    { <<lat, lon>> : lat \in {0 - 90, 0 - 82, 0, 82, 90}, lon \in {0 - 180, 0, 180} }
        \cup { <<0, 90>>, <<0, 0 - 90>> }

\* the pairs on which the distance is modelled
HaversinePairs ==
    { pair \in HaversinePoints \X HaversinePoints :
         \/ pair[1][2] % 180 = 0 /\ pair[2][2] % 180 = 0
         \/ pair[1][1] % 90 = 0 /\ pair[2][1] % 90 = 0 }

\* calculate_haversine_distance: the distance in metres, or ValueError
HaversineOutcome(lat1, lon1, lat2, lon2) ==
    IF HaversineRaises(lat1, lon1, lat2, lon2)
    THEN [raised |-> TRUE, value |-> 0]
    ELSE [raised |-> FALSE, value |-> CalculateHaversineDistance(lat1, lon1, lat2, lon2)]

\* the function applied to A and B in both orders, and to A twice
HaversineCall ==
    /\ call = NoCall
    /\ \E pair \in HaversinePairs :
          LET a == pair[1]
              b == pair[2]
          IN  call' = [ fn |-> "calculate_haversine_distance", a |-> a, b |-> b,
                        ab |-> HaversineOutcome(a[1], a[2], b[1], b[2]),
                        ba |-> HaversineOutcome(b[1], b[2], a[1], a[2]),
                        aa |-> HaversineOutcome(a[1], a[2], a[1], a[2]) ]
    /\ UNCHANGED <<duel, duels, blackout, clock, pc, loc>>

UtilNext ==
    \/ CheckinTimeCall
    \/ PredictionTimeCall
    \/ BlackoutWindowCall
    \/ CheckinTimeZonedCall
    \/ PredictionTimeZonedCall
    \/ HaversineCall

UtilSpec == UtilInit /\ [][UtilNext]_vars

\* C17: is_valid_checkin_time is true exactly when the check-in instant lies
\* between snipe time minus the tolerance and snipe time plus the tolerance,
\* both bounds included; with the default tolerance of 2 minutes it is true
\* at exactly 2 minutes before and after and false one second further out.
C17_CheckinWindowInclusive ==
    call.fn = "is_valid_checkin_time"
        => LET s == call.snipe_time_utc
               c == call.checkin_time_utc
               tol == call.tolerance_minutes * 60
           IN  /\ call.result <=> (s - tol <= c /\ c <= s + tol)
               /\ call.tolerance_minutes = CHECKIN_TOLERANCE_MINUTES
                     => /\ c \in {s - 120, s + 120} => call.result
                        /\ c \in {s - 121, s + 121} => ~call.result

\* the default tolerance, the check-in exactly 2 minutes after the snipe time
C17_Witness ==
    /\ call.fn = "is_valid_checkin_time"
    /\ call.tolerance_minutes = 2
    /\ call.checkin_time_utc = call.snipe_time_utc + 120
    /\ call.result

\* C18: is_valid_prediction_time is true exactly when the instant is outside
\* [date 12:00, date+1 00:00), or the hour is in 12..19 and the instant is in
\* [date h:00, date h:00 + 5 h); with no hour or one out of range it is false
\* everywhere in the window, start included and end excluded.
C18_PredictionTimeRule ==
    call.fn = "is_valid_prediction_time"
        => LET now == call.current_time_utc
               ws == call.date * Day + 12 * Hour
               we == (call.date + 1) * Day
               in_range == call.h # None /\ call.h[1] \in 12..19
           IN  /\ call.result
                    <=> \/ now < ws \/ now >= we
                        \/ /\ in_range
                           /\ call.date * Day + call.h[1] * Hour <= now
                           /\ now < call.date * Day + (call.h[1] + 5) * Hour
               /\ (~in_range /\ ws <= now /\ now < we) => ~call.result
               /\ ~in_range => (now = ws => ~call.result) /\ (now = we => call.result)

\* no blackout: refused at the window's first instant
C18_Witness ==
    /\ call.fn = "is_valid_prediction_time"
    /\ call.h = None
    /\ call.current_time_utc = call.date * Day + 12 * Hour
    /\ ~call.result

\* C19: calculate_blackout_window_utc returns no window when the hour is
\* absent or outside 12..19, and otherwise [date h:00, date h:00 + 5 h), which
\* lies within [date 00:00, date + 2 days).
C19_BlackoutWindow ==
    call.fn = "calculate_blackout_window_utc"
        => IF call.h = None \/ call.h[1] < 12 \/ call.h[1] > 19
           THEN call.result = None
           ELSE /\ call.result # None
                /\ call.result[1][1] = call.date * Day + call.h[1] * Hour
                /\ call.result[1][2] = call.result[1][1] + 5 * Hour
                /\ call.date * Day <= call.result[1][1]
                /\ call.result[1][2] <= (call.date + 2) * Day

\* hour 19 on date 1: the window ends at the start of date 2
C19_Witness ==
    /\ call.fn = "calculate_blackout_window_utc"
    /\ call.h = Some(19) /\ call.date = 1
    /\ call.result = Some(<<Day + 19 * Hour, 2 * Day>>)

\* ---- the error responses of submit_prediction and submit_checkin (RejectSpec)

Continue == [status_code |-> 0, detail |-> "continue"]

HttpError(status_code, detail) == [status_code |-> status_code, detail |-> detail]

\* _get_duel_or_404: the 404 raised inside the try block is caught by its own
\* "except Exception" and leaves as a 500
DuelLookup(d) ==
    IF RowExists(d) THEN Continue
    ELSE HttpError(500, "Database error fetching duel")

\* submit_prediction, line 345-373: the checks on the fetched row, in order
PredictChecks(d, user) ==
    IF DuelLookup(d) # Continue THEN DuelLookup(d)
    ELSE IF d.status # "ACTIVE" THEN HttpError(400, "Duel is not active")
    ELSE IF user \in {U1, U2}
         THEN IF PredictedOf(d, user)[1] # None
              THEN HttpError(400, "Prediction already submitted for this user")
              ELSE Continue
         ELSE HttpError(403, "User is not part of this duel")

\* submit_checkin, line 407-454: the checks on the fetched row and on the
\* request's timestamp, in order
CheckinChecks(d, user, off, tz) ==
    IF DuelLookup(d) # Continue THEN DuelLookup(d)
    ELSE IF d.status # "ACTIVE" THEN HttpError(400, "Duel is not active")
    ELSE IF user \notin {U1, U2} THEN HttpError(403, "User is not part of this duel")
    ELSE IF ActualLatOf(d, user) # None
         THEN HttpError(400, "Check-in already submitted")
    ELSE IF SnipeTimeOf(d, user) = None
         THEN HttpError(400, "Snipe time not set for this user in the duel")
    ELSE LET ts == NormalizeCheckinTime([wall |-> SnipeTimeOf(d, user)[1] + off, tz |-> tz])
         IN  IF CheckinTimeRaises(ts)
             THEN HttpError(500, "ValueError")
             ELSE IF ~IsValidCheckinTime(SnipeTimeOf(d, user)[1], ts.wall,
                                         CHECKIN_TOLERANCE_MINUTES)
                  THEN HttpError(400, "Check-in submitted outside the allowed time window")
                  ELSE Continue

Response(op, user, error) ==
    [ fn |-> "response", op |-> op, user |-> user,
      status_code |-> error.status_code, detail |-> error.detail ]

\* submit_prediction leaving through one of the raise statements of line
\* 351-373: the error is the response and nothing else happens
PredictRejected(p) ==
    /\ pc[p] = "idle"
    /\ \E user \in Usernames :
         /\ PredictChecks(duel, user) # Continue
         /\ call' = Response("predict", user, PredictChecks(duel, user))
    /\ UNCHANGED <<duel, duels, blackout, clock, pc, loc>>

\* submit_checkin leaving through one of the raise statements of line
\* 415-454
CheckinRejected(p) ==
    /\ pc[p] = "idle"
    /\ \E user \in Usernames, off \in CheckinOffsets, tz \in {None, Some(0), Some(Hour)} :
         /\ CheckinChecks(duel, user, off, tz) # Continue
         /\ call' = Response("checkin", user, CheckinChecks(duel, user, off, tz))
    /\ UNCHANGED <<duel, duels, blackout, clock, pc, loc>>

\* one request at a time, every handler, with the error responses recorded
RejectNext ==
    \/ Tick
    \/ RequestDuel
    \/ AcceptFetch(1)
    \/ AcceptReadU1(1)
    \/ AcceptReadU2(1)
    \/ AcceptUpdate(1)
    \/ DeclineFetch(1)
    \/ DeclineDelete(1)
    \/ PredictFetch(1)
    \/ PredictNow(1)
    \/ PredictValidate(1)
    \/ PredictUpdate(1)
    \/ PredictRejected(1)
    \/ CheckinFetch(1)
    \/ CheckinUpdate(1)
    \/ CheckinRejected(1)
    \/ ResultsFetch(1)
    \/ ResultsUpdate(1)

RejectSpec == Init /\ [][RejectNext]_vars

\* C20: a prediction or check-in request gets past its checks only on an
\* ACTIVE row that holds no value of that participant yet; a request that
\* finds another status, or the participant's value already stored, ends with
\* a 400 response in a step that leaves the row unchanged and starts nothing
\* (no update, no result calculation).
C20_RejectedRequestWritesNothing ==
    [][ /\ \A p \in Procs :
             /\ (pc[p] = "idle" /\ pc'[p] = "predict_now")
                   => /\ duel.status = "ACTIVE"
                      /\ PredictedOf(duel, loc'[p].user) = <<None, None>>
             /\ (pc[p] = "idle" /\ pc'[p] = "checkin_update")
                   => /\ duel.status = "ACTIVE"
                      /\ ActualOf(duel, loc'[p].user) = <<None, None>>
        /\ (call' # call /\ call'.fn = "response")
              => /\ call'.status_code >= 400
                 /\ duel' = duel /\ pc' = pc /\ loc' = loc
                 /\ (RowExists(duel) /\ duel.status # "ACTIVE")
                       => call'.status_code = 400 /\ call'.detail = "Duel is not active"
                 /\ (/\ RowExists(duel) /\ duel.status = "ACTIVE"
                     /\ call'.user \in Users /\ call'.op = "predict"
                     /\ PredictedOf(duel, call'.user)[1] # None)
                       => /\ call'.status_code = 400
                          /\ call'.detail = "Prediction already submitted for this user"
                 /\ (/\ RowExists(duel) /\ duel.status = "ACTIVE"
                     /\ call'.user \in Users /\ call'.op = "checkin"
                     /\ ActualLatOf(duel, call'.user) # None)
                       => /\ call'.status_code = 400
                          /\ call'.detail = "Check-in already submitted"
      ]_vars

\* a second check-in of a participant was refused while the opponent had not
\* checked in: the duel is still ACTIVE, no handler is running
C20_Witness ==
    /\ call.fn = "response" /\ call.op = "checkin"
    /\ call.detail = "Check-in already submitted"
    /\ call.user \in Users
    /\ duel.status = "ACTIVE"
    /\ ActualLatOf(duel, call.user) # None
    /\ ActualLatOf(duel, Opponent(call.user)) = None
    /\ Quiescent

\* C21: a result calculation on a row in which either snipe time is missing
\* writes nothing: the row afterwards is the row it fetched, so it is not
\* COMPLETED and a later calculation is not turned away.
C21_MissingSnipeTimeIsNoOp ==
    (/\ call.fn = "calculate"
     /\ \/ call.before.snipe_time_user1 = None
        \/ call.before.snipe_time_user2 = None)
        => /\ ~call.wrote
           /\ duel = call.before
           /\ duel.status # "COMPLETED"
           /\ duel.completed_at = None /\ duel.winner_user_id = None

\* an ACTIVE row with both check-ins stored and user1's snipe time missing
C21_Witness ==
    /\ call.fn = "calculate"
    /\ call.before.status = "ACTIVE"
    /\ call.before.snipe_time_user1 = None /\ call.before.snipe_time_user2 # None
    /\ call.before.user1_actual_lat # None /\ call.before.user2_actual_lat # None
    /\ ~call.wrote

NotUtc(ts) == ts.tz = None \/ ts.tz[1] # 0

\* C23 as stated: neither utility returns a boolean when a non-null instant
\* it is given is naive or has a non-zero UTC offset, whatever the other
\* arguments are.
C23_NonUtcNeverReturns ==
    /\ (/\ call.fn = "checkin_time_outcome"
        /\ \/ call.snipe_time_utc # None /\ NotUtc(call.snipe_time_utc[1])
           \/ call.checkin_time_utc # None /\ NotUtc(call.checkin_time_utc[1]))
          => call.result.raised
    /\ call.fn = "prediction_time_outcome"
          => (NotUtc(call.current_time_utc) => call.result.raised)

\* C23 amended: is_valid_checkin_time raises for a naive or non-zero-offset
\* instant when both instants are non-null (with either one null it returns
\* False before looking at zones); is_valid_prediction_time always raises for
\* such an instant; with UTC instants both return a boolean.
C23_NonUtcRaisesWhenBothGiven ==
    /\ call.fn = "checkin_time_outcome"
          => IF call.snipe_time_utc = None \/ call.checkin_time_utc = None
             THEN call.result = [raised |-> FALSE, value |-> FALSE]
             ELSE call.result.raised
                     <=> (NotUtc(call.snipe_time_utc[1]) \/ NotUtc(call.checkin_time_utc[1]))
    /\ call.fn = "prediction_time_outcome"
          => (call.result.raised <=> NotUtc(call.current_time_utc))

\* a check-in instant one hour off UTC against a UTC snipe time
C23_Witness ==
    /\ call.fn = "checkin_time_outcome"
    /\ call.snipe_time_utc # None /\ call.checkin_time_utc # None
    /\ call.snipe_time_utc[1].tz = Some(0)
    /\ call.checkin_time_utc[1].tz = Some(Hour)
    /\ call.result.raised

\* C24: for all coordinates A and B in range the distance function returns a
\* distance that is never negative, with distance(A, A) = 0 and
\* distance(A, B) = distance(B, A).
C24_DistanceIsSymmetricNonNegative ==
    call.fn = "calculate_haversine_distance"
        => /\ ~call.aa.raised /\ call.aa.value = 0
           /\ ~call.ab.raised /\ ~call.ba.raised
           /\ call.ab.value = call.ba.value
           /\ call.ab.value >= 0

\* C25: in every reachable state of a duel, PENDING implies both snipe times
\* are absent and ACTIVE or COMPLETED implies both are present.
C25_SnipeTimesSetTogether ==
    RowExists(duel)
        => /\ duel.status \in {"PENDING", "ACTIVE", "COMPLETED"}
           /\ duel.status = "PENDING"
                 => duel.snipe_time_user1 = None /\ duel.snipe_time_user2 = None
           /\ duel.status \in {"ACTIVE", "COMPLETED"}
                 => duel.snipe_time_user1 # None /\ duel.snipe_time_user2 # None

\* a completed duel whose two snipe times differ
C25_Witness ==
    /\ RowExists(duel)
    /\ duel.status = "COMPLETED"
    /\ duel.snipe_time_user1 # None /\ duel.snipe_time_user2 # None
    /\ duel.snipe_time_user1 # duel.snipe_time_user2

\* C26: a check-in request gets past its checks, and so stores an actual
\* coordinate, only if the server's clock at that moment is within 2 minutes
\* of the participant's snipe time.
C26_CheckinOnlyNearSnipeTimeByServerClock ==
    [][ \A p \in Procs :
          (pc[p] = "idle" /\ pc'[p] = "checkin_update")
             => LET s == IF loc'[p].user = U1 THEN duel.snipe_time_user1
                         ELSE duel.snipe_time_user2
                IN  /\ s # None
                    /\ s[1] - 2 * Minute <= clock
                    /\ clock <= s[1] + 2 * Minute
      ]_vars

\* ---- one check-in request on a stored row (CheckinSpec)

\* submit_checkin, line 407-454, on the timestamp ts of the request body: the
\* checks in order, Continue when the request goes on to the update
CheckinOutcome(d, user, ts) ==
    IF DuelLookup(d) # Continue THEN DuelLookup(d)
    ELSE IF d.status # "ACTIVE" THEN HttpError(400, "Duel is not active")
    ELSE IF user \notin {U1, U2} THEN HttpError(403, "User is not part of this duel")
    ELSE IF ActualLatOf(d, user) # None
         THEN HttpError(400, "Check-in already submitted")
    ELSE IF SnipeTimeOf(d, user) = None
         THEN HttpError(400, "Snipe time not set for this user in the duel")
    ELSE LET checkin_time == NormalizeCheckinTime(ts)
         IN  IF CheckinTimeRaises(checkin_time)
             THEN HttpError(500, "ValueError")
             ELSE IF ~IsValidCheckinTime(SnipeTimeOf(d, user)[1], checkin_time.wall,
                                         CHECKIN_TOLERANCE_MINUTES)
                  THEN HttpError(400, "Check-in submitted outside the allowed time window")
                  ELSE Continue

CheckinSnipeTimes == {12 * Hour, 18 * Hour}

\* the row before acceptance, and accepted rows with each participant's
\* check-in stored or not
CheckinRows ==
    {NewDuel(0)} \cup
    { [NewDuel(0) EXCEPT
         !.status = "ACTIVE", !.accepted_at = Some(11 * Hour),
         !.snipe_time_user1 = Some(s1), !.snipe_time_user2 = Some(s2),
         !.user1_actual_lat = LatOf(a1), !.user1_actual_lon = LonOf(a1),
         !.user2_actual_lat = LatOf(a2), !.user2_actual_lon = LonOf(a2) ] :
      s1 \in CheckinSnipeTimes, s2 \in CheckinSnipeTimes,
      a1 \in {None, Some(<<0, 0>>)}, a2 \in {None, Some(<<0, 0>>)} }

\* wall-clock readings of the request's timestamp, around both snipe times
CheckinWalls == { s + off : s \in CheckinSnipeTimes, off \in CheckinOffsets }

CheckinInit ==
    /\ duel \in CheckinRows
    /\ duels = << >>
    /\ blackout = [u \in Users |-> None]
    /\ clock \in {11 * Hour, 12 * Hour, 18 * Hour + 1}
    /\ pc = [p \in Procs |-> "idle"]
    /\ loc = [p \in Procs |-> IdleLoc]
    /\ call = NoCall

\* submit_checkin up to its update, with the request and its outcome recorded
CheckinRequest(p) ==
    /\ pc[p] = "idle"
    /\ call = NoCall
    /\ \E user \in Usernames, c \in RequestCoordinates,
          wall \in CheckinWalls, tz \in {None, Some(0), Some(Hour)} :
         LET ts == [wall |-> wall, tz |-> tz]
             outcome == CheckinOutcome(duel, user, ts)
         IN  /\ call' = [ fn |-> "checkin_request", user |-> user, timestamp |-> ts,
                          received |-> clock, before |-> duel,
                          status_code |-> outcome.status_code,
                          detail |-> outcome.detail ]
             /\ IF outcome = Continue
                THEN Goto(p, "checkin_update",
                          [IdleLoc EXCEPT !.user = user, !.lat = c[1], !.lon = c[2],
                                          !.other_user_checked_in =
                                              (ActualLatOf(duel, Opponent(user)) # None)])
                ELSE UNCHANGED <<pc, loc>>
    /\ UNCHANGED <<duel, duels, blackout, clock>>

CheckinNext ==
    \/ CheckinRequest(1)
    \/ CheckinUpdate(1)
    \/ ResultsFetch(1)
    \/ ResultsUpdate(1)

CheckinSpec == CheckinInit /\ [][CheckinNext]_vars

\* the snipe time of the requesting user in the row the request fetched
OwnSnipeTime ==
    IF call.user = U1 THEN call.before.snipe_time_user1
    ELSE IF call.user = U2 THEN call.before.snipe_time_user2
    ELSE None

\* the timestamp's wall-clock reading, taken as UTC, is within 2 minutes of
\* the requesting user's own snipe time
WallInOwnWindow ==
    /\ OwnSnipeTime # None
    /\ OwnSnipeTime[1] - 120 <= call.timestamp.wall
    /\ call.timestamp.wall <= OwnSnipeTime[1] + 120

\* the requesting user's actual coordinate is as it was before the request
ActualUntouched ==
    call.user \in Users => ActualOf(duel, call.user) = ActualOf(call.before, call.user)

\* C27: a check-in is recorded only if the request's timestamp is within
\* [s - 2 min, s + 2 min] of the participant's own snipe time s; a request
\* whose timestamp is outside is rejected and the actual coordinate stays as
\* it was.
C27_CheckinAgainstOwnSnipeTime ==
    call.fn = "checkin_request"
        => /\ call.status_code = 0
                 => /\ call.timestamp.tz \in {None, Some(0)}
                    /\ WallInOwnWindow
           /\ ~ActualUntouched => call.status_code = 0
           /\ (call.timestamp.tz \in {None, Some(0)} /\ ~WallInOwnWindow)
                 => /\ call.status_code >= 400
                    /\ ActualUntouched
                    /\ pc[1] = "idle"

\* user1's request carries user2's snipe time, hours from its own: rejected
C27_Witness ==
    /\ call.fn = "checkin_request"
    /\ call.user = U1
    /\ call.before.status = "ACTIVE"
    /\ call.before.user1_actual_lat = None
    /\ call.before.snipe_time_user1 # call.before.snipe_time_user2
    /\ call.timestamp = [wall |-> call.before.snipe_time_user2[1], tz |-> Some(0)]
    /\ call.status_code = 400
    /\ duel.user1_actual_lat = None

\* the request passes every check that comes before the timestamp's
CheckinReachesTimeCheck ==
    /\ call.before.status = "ACTIVE"
    /\ call.user \in Users
    /\ ActualLatOf(call.before, call.user) = None
    /\ OwnSnipeTime # None

\* C28: a check-in timestamp without a zone is validated as the same
\* wall-clock reading in UTC and accepted or rejected by the window rule; a
\* timestamp with a non-zero UTC offset ends in an error and stores nothing.
C28_NaiveIsUtcOffsetIsError ==
    call.fn = "checkin_request"
        => /\ (call.timestamp.tz = None /\ CheckinReachesTimeCheck)
                 => IF WallInOwnWindow THEN call.status_code = 0
                    ELSE call.status_code = 400
           /\ (call.timestamp.tz # None /\ call.timestamp.tz[1] # 0)
                 => /\ call.status_code >= 400
                    /\ CheckinReachesTimeCheck => call.status_code = 500
                    /\ duel = call.before
                    /\ pc[1] = "idle"

\* a zoneless timestamp 2 minutes after the snipe time was accepted and the
\* coordinate stored
C28_Witness ==
    /\ call.fn = "checkin_request"
    /\ call.timestamp.tz = None
    /\ OwnSnipeTime # None
    /\ call.timestamp.wall = OwnSnipeTime[1] + 120
    /\ call.status_code = 0
    /\ ActualOf(call.before, call.user) = <<None, None>>
    /\ ActualOf(duel, call.user) # <<None, None>>

\* ---- claims about one call of generate_random_snipe_time_utc (GenSpec)

\* the blackout of the call as offsets from the window start (12:00): empty
\* when the hour is absent or out of range
CallBlackoutStart ==
    IF call.h # None /\ call.h[1] \in 12..19 THEN (call.h[1] - 12) * Hour ELSE 0

CallBlackoutEnd ==
    IF call.h # None /\ call.h[1] \in 12..19 THEN (call.h[1] - 12 + 5) * Hour ELSE 0

\* how many seconds of the blackout lie below offset o
BlackoutSecondsBelow(o) ==
    IF o <= CallBlackoutStart THEN 0
    ELSE IF o >= CallBlackoutEnd THEN CallBlackoutEnd - CallBlackoutStart
    ELSE o - CallBlackoutStart

\* C29: the draw r is mapped to the r-th second (counting from 0, in
\* increasing order) of the activity window that lies outside the blackout:
\* the map is strictly increasing and a bijection from 0..total_valid_seconds-1
\* onto those seconds, and the instant returned is the window start plus that
\* offset.
C29_DrawIsRankOfValidSecond ==
    call.fn = "generate"
        => LET o == call.result - (call.date * Day + 12 * Hour)
           IN  /\ ~call.raised
               /\ 0 <= call.r /\ call.r < call.total_valid_seconds
               /\ call.total_valid_seconds
                     = 12 * Hour - (CallBlackoutEnd - CallBlackoutStart)
               /\ 0 <= o /\ o < 12 * Hour
               /\ ~(CallBlackoutStart <= o /\ o < CallBlackoutEnd)
               /\ o - BlackoutSecondsBelow(o) = call.r

\* blackout 13:00-18:00, the draw one hour in: the first second after it
C29_Witness ==
    /\ call.fn = "generate"
    /\ call.h = Some(13)
    /\ call.r = Hour
    /\ call.result = call.date * Day + 18 * Hour

\* C30: for every date the function does not raise when the hour is absent
\* or in 12..19: the candidate list is non-empty, the total is 12 hours with
\* no blackout and 7 hours for each hour in 12..19, with one candidate
\* interval for hours 12 and 19 and two for hours 13..18.
C30_NeverRaisesForValidHours ==
    (/\ call.fn = "generate"
     /\ (call.h = None \/ call.h[1] \in 12..19))
        => /\ ~call.raised
           /\ call.valid_intervals_seconds # << >>
           /\ call.h = None
                 => /\ call.total_valid_seconds = 43200
                    /\ Len(call.valid_intervals_seconds) = 1
           /\ call.h # None
                 => /\ call.total_valid_seconds = 25200
                    /\ Len(call.valid_intervals_seconds)
                          = IF call.h[1] \in {12, 19} THEN 1 ELSE 2

\* hour 19: the single candidate interval is 12:00-19:00
C30_Witness ==
    /\ call.fn = "generate"
    /\ call.h = Some(19)
    /\ call.valid_intervals_seconds = << <<0, 7 * Hour>> >>
    /\ call.total_valid_seconds = 7 * Hour
    /\ ~call.raised

\* ---- claims about acceptance and the instants it stores

\* C31: in every duel that has become ACTIVE, neither generated snipe time is
\* earlier than the instant of acceptance, so no participant's check-in
\* window (snipe time + 2 minutes) has closed when the duel becomes ACTIVE.
C31_SnipeTimesNotBeforeAcceptance ==
    (RowExists(duel) /\ duel.accepted_at # None)
        => /\ duel.snipe_time_user1[1] >= duel.accepted_at[1]
           /\ duel.snipe_time_user2[1] >= duel.accepted_at[1]
           /\ duel.snipe_time_user1[1] + CHECKIN_TOLERANCE_MINUTES * Minute
                 >= duel.accepted_at[1]
           /\ duel.snipe_time_user2[1] + CHECKIN_TOLERANCE_MINUTES * Minute
                 >= duel.accepted_at[1]

\* C32: for every date, every blackout setting h (absent or in 12..19) and
\* every instant s generate_random_snipe_time_utc can return for (h, date),
\* is_valid_prediction_time(s, h, date) returns False.
C32_NoPredictionAtSnipeTime ==
    (/\ call.fn = "predict_at_snipe_time"
     /\ (call.h = None \/ call.h[1] \in 12..19))
        => call.result = Returned(FALSE)

\* blackout 14:00-19:00 and the draw that lands on 19:00:00, the first
\* instant after the blackout
C32_Witness ==
    /\ call.fn = "predict_at_snipe_time"
    /\ call.h = Some(14)
    /\ call.snipe_time_utc = call.date * Day + 19 * Hour
    /\ call.result = Returned(FALSE)

\* ---- claims about the stored result of a COMPLETED duel

\* the distances and the winner the winner rules yield from the flags and
\* coordinates stored in row d
ResultFromStored(d) ==
    LET dq_any == d.user1_dq \/ d.user2_dq
        distance1 == IF dq_any THEN None ELSE Distance1(d)
        distance2 == IF dq_any THEN None ELSE Distance2(d)
    IN  <<distance1, distance2,
          DetermineWinner(d.user1_dq, d.user2_dq, distance1, distance2)>>

\* C33: in every reachable COMPLETED duel, overlapping prediction, check-in
\* and result-calculation requests included, the stored final distances and
\* winner are the ones the winner rules yield from the stored flags,
\* predicted coordinates and actual coordinates.
C33_CompletedResultMatchesStoredRow ==
    (RowExists(duel) /\ duel.status = "COMPLETED")
        => <<duel.user1_final_distance, duel.user2_final_distance,
             duel.winner_user_id>> = ResultFromStored(duel)

MaxDuels == 2

\* the friendships table: the ACCEPTED pairs, stored as <<user_a, user_b>>
\* with user_a the smaller id
Friendships == {<<1, 2>>, <<2, 3>>}

\* request_duel, line 194-197
AreFriends(req_id, opp_id) ==
    <<Min2(req_id, opp_id), Max2(req_id, opp_id)>> \in Friendships

\* request_duel, line 211-216: insert_data
InsertData(today, req_id, opp_id) ==
    [duel_date |-> today, user1_id |-> req_id, user2_id |-> opp_id, status |-> "PENDING"]

\* request_duel, line 201 and 205: the rows of the date with status ACTIVE or
\* PENDING in which the user is user1 or user2
OpenDuelsOf(table, user, today) ==
    { i \in DOMAIN table :
         /\ table[i].duel_date = today
         /\ table[i].status \in {"ACTIVE", "PENDING"}
         /\ (table[i].user1_id = user \/ table[i].user2_id = user) }

Created == [status_code |-> 201, detail |-> "created"]

\* request handlers between their first step and their last
InFlight == Cardinality({p \in Procs : pc[p] # "idle"})

RequestInit ==
    /\ duel = NoRow("NONE")
    /\ duels = << >>
    /\ blackout = [u \in Users |-> None]
    /\ clock = ClockAt(0)
    /\ pc = [p \in Procs |-> "idle"]
    /\ loc = [p \in Procs |-> IdleLoc]
    /\ call = NoCall

\* request_duel, line 185-190: look up both users, read today's date, reject
\* a request of a user against itself
RequestDuelStart(p) ==
    /\ pc[p] = "idle"
    /\ Len(duels) + InFlight < MaxDuels
    /\ \E req_id \in Usernames, opp_id \in Usernames :
         IF req_id = opp_id
         THEN /\ call' = Response("request", req_id, HttpError(400, "Cannot duel yourself"))
              /\ UNCHANGED <<pc, loc>>
         ELSE /\ Goto(p, "request_friends",
                      [IdleLoc EXCEPT !.req_id = req_id, !.opp_id = opp_id,
                                      !.today = TodayUtc(clock)])
              /\ UNCHANGED call
    /\ UNCHANGED <<duel, duels, blackout, clock>>

\* request_duel, line 196-198
RequestDuelFriends(p) ==
    /\ pc[p] = "request_friends"
    /\ IF AreFriends(loc[p].req_id, loc[p].opp_id)
       THEN Goto(p, "request_opponent", loc[p]) /\ UNCHANGED call
       ELSE /\ call' = Response("request", loc[p].req_id,
                                HttpError(400, "Users are not friends"))
            /\ Finish(p)
    /\ UNCHANGED <<duel, duels, blackout, clock>>

\* request_duel, line 201-203
RequestDuelOpponent(p) ==
    /\ pc[p] = "request_opponent"
    /\ IF OpenDuelsOf(duels, loc[p].opp_id, loc[p].today) = {}
       THEN Goto(p, "request_requester", loc[p]) /\ UNCHANGED call
       ELSE /\ call' = Response("request", loc[p].req_id,
                                HttpError(409, "Opponent already has a duel requested or active for today"))
            /\ Finish(p)
    /\ UNCHANGED <<duel, duels, blackout, clock>>

\* request_duel, line 205-207
RequestDuelRequester(p) ==
    /\ pc[p] = "request_requester"
    /\ IF OpenDuelsOf(duels, loc[p].req_id, loc[p].today) = {}
       THEN Goto(p, "request_insert", loc[p]) /\ UNCHANGED call
       ELSE /\ call' = Response("request", loc[p].req_id,
                                HttpError(409, "Requester already has a duel requested or active for today"))
            /\ Finish(p)
    /\ UNCHANGED <<duel, duels, blackout, clock>>

\* request_duel, line 211-223
RequestDuelInsert(p) ==
    /\ pc[p] = "request_insert"
    /\ duels' = Append(duels, InsertData(loc[p].today, loc[p].req_id, loc[p].opp_id))
    /\ call' = Response("request", loc[p].req_id, Created)
    /\ Finish(p)
    /\ UNCHANGED <<duel, blackout, clock>>

\* accept_duel's update on a PENDING row of the table
RowAccepted ==
    /\ \E i \in DOMAIN duels :
         /\ duels[i].status = "PENDING"
         /\ duels' = [duels EXCEPT ![i].status = "ACTIVE"]
    /\ UNCHANGED <<duel, blackout, clock, pc, loc, call>>

\* decline_duel's delete of a PENDING row (the row stays in the sequence,
\* marked, so that the other rows keep their place)
RowDeclined ==
    /\ \E i \in DOMAIN duels :
         /\ duels[i].status = "PENDING"
         /\ duels' = [duels EXCEPT ![i].status = "DELETED"]
    /\ UNCHANGED <<duel, blackout, clock, pc, loc, call>>

\* the result calculation's update on an ACTIVE row
RowCompleted ==
    /\ \E i \in DOMAIN duels :
         /\ duels[i].status = "ACTIVE"
         /\ duels' = [duels EXCEPT ![i].status = "COMPLETED"]
    /\ UNCHANGED <<duel, blackout, clock, pc, loc, call>>

RequestNext ==
    \/ \E p \in Procs : RequestDuelStart(p)
    \/ \E p \in Procs : RequestDuelFriends(p)
    \/ \E p \in Procs : RequestDuelOpponent(p)
    \/ \E p \in Procs : RequestDuelRequester(p)
    \/ \E p \in Procs : RequestDuelInsert(p)
    \/ RowAccepted
    \/ RowDeclined
    \/ RowCompleted

RequestSpec == RequestInit /\ [][RequestNext]_vars

\* C36: in every reachable state, overlapping duel requests included, each
\* user is user1 or user2 of at most one PENDING or ACTIVE duel of a date and
\* no duel has user1 equal to user2; a row is inserted only when neither of
\* its users has such a duel, and a request rejected with 409 inserts nothing.
C36_AtMostOneOpenDuelPerUser ==
    [][ /\ \A u \in Usernames, i \in DOMAIN duels' :
             Cardinality(OpenDuelsOf(duels', u, duels'[i].duel_date)) <= 1
        /\ \A i \in DOMAIN duels' : duels'[i].user1_id # duels'[i].user2_id
        /\ Len(duels') > Len(duels)
              => LET new == duels'[Len(duels')]
                 IN  \A u \in {new.user1_id, new.user2_id} :
                        OpenDuelsOf(duels, u, new.duel_date) = {}
        /\ (call' # call /\ call'.fn = "response" /\ call'.status_code = 409)
              => duels' = duels
      ]_vars

\* ---- decline_duel among the other handlers, with its responses recorded
\* (DeclineSpec)

NoContent == [status_code |-> 204, detail |-> "No Content"]

\* decline_duel, line 285-288: the checks on the fetched row
DeclineChecks(d) ==
    IF DuelLookup(d) # Continue THEN DuelLookup(d)
    ELSE IF d.status # "PENDING"
         THEN HttpError(400, "Cannot decline an active or completed duel")
         ELSE Continue

\* decline_duel leaving through the raise of line 288 or of the lookup
DeclineRejected(p) ==
    /\ pc[p] = "idle"
    /\ DeclineChecks(duel) # Continue
    /\ call' = Response("decline", 0, DeclineChecks(duel))
    /\ UNCHANGED <<duel, duels, blackout, clock, pc, loc>>

\* decline_duel, line 291-293: the delete, answered with 204
DeclineDeleteAnswered(p) ==
    /\ pc[p] = "decline_delete"
    /\ duel' = DeclinedRow(duel)
    /\ call' = Response("decline", 0, NoContent)
    /\ Finish(p)
    /\ UNCHANGED <<duels, blackout, clock>>

\* every handler, overlapping, at one instant
DeclineNext ==
    \/ RequestDuel
    \/ \E p \in Procs : AcceptFetch(p)
    \/ \E p \in Procs : AcceptReadU1(p)
    \/ \E p \in Procs : AcceptReadU2(p)
    \/ \E p \in Procs : AcceptUpdate(p)
    \/ \E p \in Procs : DeclineFetch(p)
    \/ \E p \in Procs : DeclineDeleteAnswered(p)
    \/ \E p \in Procs : DeclineRejected(p)
    \/ \E p \in Procs : PredictFetch(p)
    \/ \E p \in Procs : PredictNow(p)
    \/ \E p \in Procs : PredictValidate(p)
    \/ \E p \in Procs : PredictUpdate(p)
    \/ \E p \in Procs : CheckinFetch(p)
    \/ \E p \in Procs : CheckinUpdate(p)
    \/ \E p \in Procs : ResultsFetch(p)
    \/ \E p \in Procs : ResultsUpdate(p)

DeclineSpec == Init /\ [][DeclineNext]_vars

\* C37: the duel record is removed only by a decline's delete and only while
\* its status is PENDING at that moment: in every interleaving with accept,
\* predict, check-in and result calculation an ACTIVE or COMPLETED duel is
\* never deleted; a decline goes on to its delete only if it read PENDING,
\* and one that reads another status is rejected in a step that changes
\* nothing.
C37_DeclineDeletesOnlyPending ==
    [][ /\ (RowExists(duel) /\ ~RowExists(duel'))
              => /\ duel.status = "PENDING"
                 /\ \E p \in Procs : pc[p] = "decline_delete" /\ pc'[p] = "idle"
        /\ \A p \in Procs :
              (pc[p] = "idle" /\ pc'[p] = "decline_delete") => duel.status = "PENDING"
        /\ (call' # call /\ call'.fn = "response" /\ call'.op = "decline"
                         /\ call'.status_code # 204)
              => /\ duel' = duel /\ pc' = pc /\ loc' = loc
                 /\ ~(RowExists(duel) /\ duel.status = "PENDING")
                 /\ RowExists(duel)
                       => /\ call'.status_code = 400
                          /\ call'.detail = "Cannot decline an active or completed duel"
      ]_vars

\* a decline that read PENDING ran its delete after an accept had made the
\* duel ACTIVE: it was answered and the duel is still there, later COMPLETED
C37_Witness ==
    /\ call.fn = "response" /\ call.op = "decline" /\ call.status_code = 204
    /\ duel.status = "COMPLETED"
    /\ Quiescent

\* ---- every duel operation with its error responses recorded (LookupSpec)

\* accept_duel, line 238-241: the checks on the fetched row
AcceptChecks(d) ==
    IF DuelLookup(d) # Continue THEN DuelLookup(d)
    ELSE IF d.status # "PENDING" THEN HttpError(400, "Duel is not pending acceptance")
         ELSE Continue

\* accept_duel leaving through the raise of line 241 or of the lookup
AcceptRejected(p) ==
    /\ pc[p] = "idle"
    /\ AcceptChecks(duel) # Continue
    /\ call' = Response("accept", 0, AcceptChecks(duel))
    /\ UNCHANGED <<duel, duels, blackout, clock, pc, loc>>

Ok == [status_code |-> 200, detail |-> "OK"]

\* get_duel_results, line 486-498: what the request is answered with
ResultsOutcome(d) ==
    IF DuelLookup(d) # Continue THEN DuelLookup(d)
    ELSE IF d.status # "COMPLETED"
         THEN HttpError(404, "Duel results are not yet available or duel not found")
         ELSE Ok

\* get_duel_results: reads the row and answers
GetDuelResults(p) ==
    /\ pc[p] = "idle"
    /\ call' = Response("results", 0, ResultsOutcome(duel))
    /\ UNCHANGED <<duel, duels, blackout, clock, pc, loc>>

\* one request at a time, every operation on the duel
LookupNext ==
    \/ Tick
    \/ RequestDuel
    \/ AcceptFetch(1)
    \/ AcceptReadU1(1)
    \/ AcceptReadU2(1)
    \/ AcceptUpdate(1)
    \/ AcceptRejected(1)
    \/ DeclineFetch(1)
    \/ DeclineDeleteAnswered(1)
    \/ DeclineRejected(1)
    \/ PredictFetch(1)
    \/ PredictNow(1)
    \/ PredictValidate(1)
    \/ PredictUpdate(1)
    \/ PredictRejected(1)
    \/ CheckinFetch(1)
    \/ CheckinUpdate(1)
    \/ CheckinRejected(1)
    \/ ResultsFetch(1)
    \/ ResultsUpdate(1)
    \/ GetDuelResults(1)

LookupSpec == Init /\ [][LookupNext]_vars

\* C38: every duel operation (accept, decline, predict, check-in, results)
\* invoked while no record with the id exists is answered 404 Not Found, in a
\* step that modifies no record and starts nothing.
C38_MissingDuelIs404 ==
    [][ /\ \A p \in Procs : (pc[p] = "idle" /\ pc'[p] # "idle") => RowExists(duel)
        /\ (~RowExists(duel) /\ call' # call /\ call'.fn = "response")
              => /\ call'.status_code = 404
                 /\ duel' = duel /\ duels' = duels /\ pc' = pc
      ]_vars

====
